---- MODULE Spec2Model ----
(***************************************************************************)
(* A model of the NetTool plugin runtime: the execution registry, the      *)
(* plugin manager (RegisterPlugin / RefreshPlugins / RunPlugin), the       *)
(* dynamic plugin's definition lookup, the legacy adapters, the iteration  *)
(* loop of the command-line driver and the executors that start            *)
(* subprocesses.  Each part has a specification of its own over the same   *)
(* variables; a part that a specification does not run keeps its idle      *)
(* value.                                                                  *)
(***************************************************************************)
EXTENDS Integers, Sequences, FiniteSets, TLC

VARIABLES
    \* ---- plugin manager and execution registry ----
    fs,          \* the plugin directory tree: directory name -> directory state
    registry,    \* PluginRegistry.pluginFuncs: identifier -> executor
    pmPlugins,   \* PluginManager.plugins: key -> Plugin
    lastReg,     \* history: identifier -> executor of the latest Register call
    lastOp,      \* history: the operation that produced this state
    lastRun,     \* history: the RunPlugin call that produced this state, if one did
    nOps         \* number of registrations and refreshes so far

mgrVars == <<fs, registry, pmPlugins, lastReg, lastOp, lastRun, nOps>>

VARIABLES
    \* ---- the iteration loop of the command-line driver (IterableCLI) ----
    cli,             \* the IterableCLI's settings: Plugin, MaxIterations, RunInTerminal
    cliPc,           \* where Run is: idle, loop, prompt, sleep, done
    iterationCount,  \* Run's local iterationCount
    Results,         \* cli.Results
    stepLog,         \* history: what each ExecuteIteration call of this run was given and returned
    prompts,         \* history: each question to the operator: the count and the answer read
    sleeps,          \* history: the number of inter-iteration delays of this run
    cliRet           \* what Run returned, once done

cliVars == <<cli, cliPc, iterationCount, Results, stepLog, prompts, sleeps, cliRet>>

VARIABLES
    \* ---- the legacy adapters ----
    legacyPlugin,    \* the LegacyPlugin handed to the adapter
    converted,       \* the PluginDefinition an adapter returned, and which adapter
    \* ---- one DynamicPlugin and its directory ----
    dpDir,           \* the state of the plugin's directory
    dpCache,         \* DynamicPlugin.definition
    dpLast           \* history: the GetDefinition call that produced this state, if one did

legVars == <<legacyPlugin, converted>>

dpVars == <<dpDir, dpCache, dpLast>>

VARIABLES
    \* ---- executions that build, load or start a subprocess ----
    artifact,    \* the compiled artifact <pluginID>.so on disk
    exePc,       \* caller -> where its execution is: idle, stat, exec, waiting, load, done
    exeKind,     \* caller -> the executor it runs: helper, native or main
    exeCmd,      \* caller -> the command it runs or waits for: build, tool, run, none
    exeRes,      \* caller -> what its execution returned, once done
    exeTried,    \* history: caller -> the resolution tiers this execution went through
    exeCalls,    \* history: caller -> times its RunPlugin call has entered the executor
    exeBuilds,   \* history: caller -> build commands its RunPlugin call has invoked
    exeBuilt,    \* history: whether the artifact on disk was written by a build of this run
    exeFound     \* history: caller -> what its os.Stat of the artifact found

exeVars == <<artifact, exePc, exeKind, exeCmd, exeRes, exeTried, exeCalls, exeBuilds, exeBuilt,
             exeFound>>

VARIABLES
    \* ---- the manager's lock: one refresh and the RunPlugin callers ----
    mu,          \* pm.mu: whether the write lock is held, and the number of read locks
    rfPc,        \* where RefreshPlugins is: idle, loading, wantLock, readdir, entry, describing
    rfEntry,     \* the index of the directory entry RefreshPlugins is at
    rnPc,        \* caller -> where its RunPlugin is: idle, rlock, reading, executing, done
    rnId,        \* caller -> the identifier it runs
    rfKeys,      \* the keys of pm.plugins
    rfBefore,    \* the keys pm.plugins had when the latest refresh took the lock
    rfWhole,     \* pm.plugins holds what the constructor or a completed rebuild left
    rnSaw,       \* caller -> what its GetPlugin found in pm.plugins
    rnDuring     \* caller -> a refresh was under way while it waited for the map

lockVars == <<mu, rfPc, rfEntry, rnPc, rnId, rfKeys, rfBefore, rfWhole, rnSaw, rnDuring>>

VARIABLES
    \* ---- one call of the subprocess tier (DynamicPlugin.executeWithMain) ----
    subIn,       \* the call's parameters and what the plugin process will do
    subOut       \* what the call returned, once it has

subVars == <<subIn, subOut>>

VARIABLES
    \* ---- one run of the command-line driver (cmd/iterate) ----
    drvIn,       \* the flags, the selected plugin and what its parts will do
    drvOut       \* how the run went, once main has run

drvVars == <<drvIn, drvOut>>

VARIABLES
    \* ---- one call of the bandwidth test ----
    bwEnv,       \* what each speed-test tool does on this host
    bwOut        \* what executeBandwidthTest returned, and which tools it ran

bwVars == <<bwEnv, bwOut>>

VARIABLES
    \* ---- one call of a native executor ----
    natIn,       \* the executor, its parameters and what its command does
    natOut       \* what the executor returned

natVars == <<natIn, natOut>>

VARIABLES
    \* ---- concurrent operations on the registry and the manager ----
    rwMu,        \* the two mutexes: PluginRegistry.mutex and PluginManager.mu
    rwPc,        \* where each caller is in its operation
    rwOp         \* the operation each caller is in

rwVars == <<rwMu, rwPc, rwOp>>

VARIABLES
    \* ---- one LoadPlugins call over the directories with special-cased identifiers ----
    ldFs,        \* the plugin directory tree: directory name -> directory state
    ldReg,       \* PluginRegistry.pluginFuncs
    ldPlugins,   \* PluginManager.plugins
    ldOut        \* which of LoadPlugins and RefreshPlugins has run, and whether it succeeded

ldVars == <<ldFs, ldReg, ldPlugins, ldOut>>

VARIABLES
    \* ---- one call of an executor held in the registry, after LoadPlugins ----
    chFs,        \* the plugin directory tree: directory name -> directory state
    chMain,      \* the directories whose plugin.go contains "package main"
    chReg,       \* PluginRegistry.pluginFuncs
    chLoaded,    \* LoadPlugins has run
    chStack,     \* the executors entered and not yet returned, outermost first
    chPc,        \* where the innermost executor is
    chOut        \* what the outermost call returned

chVars == <<chFs, chMain, chReg, chLoaded, chStack, chPc, chOut>>

VARIABLES
    \* ---- the configuration manager and one caller ----
    cfgMu,       \* ConfigManager.mu
    cfgConf,     \* ConfigManager.configuration
    cfgFile,     \* the configuration file
    cfgOp,       \* the operation the caller is in
    cfgPc,       \* where the caller is in it
    cfgRes,      \* what the last operation returned
    cfgN         \* operations that have returned

cfgVars == <<cfgMu, cfgConf, cfgFile, cfgOp, cfgPc, cfgRes, cfgN>>

vars == <<mgrVars, cliVars, legVars, dpVars, exeVars, lockVars, subVars, drvVars, bwVars, natVars, rwVars, ldVars, chVars, cfgVars>>

\* what each part leaves alone
notMgr == <<cliVars, legVars, dpVars, exeVars, lockVars, subVars, drvVars, bwVars, natVars, rwVars, ldVars, chVars, cfgVars>>

notCli == <<mgrVars, legVars, dpVars, exeVars, lockVars, subVars, drvVars, bwVars, natVars, rwVars, ldVars, chVars, cfgVars>>

notLeg == <<mgrVars, cliVars, dpVars, exeVars, lockVars, subVars, drvVars, bwVars, natVars, rwVars, ldVars, chVars, cfgVars>>

notDp == <<mgrVars, cliVars, legVars, exeVars, lockVars, subVars, drvVars, bwVars, natVars, rwVars, ldVars, chVars, cfgVars>>

notExe == <<mgrVars, cliVars, legVars, dpVars, lockVars, subVars, drvVars, bwVars, natVars, rwVars, ldVars, chVars, cfgVars>>

notLock == <<mgrVars, cliVars, legVars, dpVars, exeVars, subVars, drvVars, bwVars, natVars, rwVars, ldVars, chVars, cfgVars>>

notSub == <<mgrVars, cliVars, legVars, dpVars, exeVars, lockVars, drvVars, bwVars, natVars, rwVars, ldVars, chVars, cfgVars>>

notDrv == <<mgrVars, cliVars, legVars, dpVars, exeVars, lockVars, subVars, bwVars, natVars, rwVars, ldVars, chVars, cfgVars>>

notBw == <<mgrVars, cliVars, legVars, dpVars, exeVars, lockVars, subVars, drvVars, natVars, rwVars, ldVars, chVars, cfgVars>>

notNat == <<mgrVars, cliVars, legVars, dpVars, exeVars, lockVars, subVars, drvVars, bwVars, rwVars, ldVars, chVars, cfgVars>>

notRw == <<mgrVars, cliVars, legVars, dpVars, exeVars, lockVars, subVars, drvVars, bwVars, natVars, ldVars, chVars, cfgVars>>

notLd == <<mgrVars, cliVars, legVars, dpVars, exeVars, lockVars, subVars, drvVars, bwVars, natVars, rwVars, chVars, cfgVars>>

notCh == <<mgrVars, cliVars, legVars, dpVars, exeVars, lockVars, subVars, drvVars, bwVars, natVars, rwVars, ldVars, cfgVars>>

notCfg == <<mgrVars, cliVars, legVars, dpVars, exeVars, lockVars, subVars, drvVars, bwVars, natVars, rwVars, ldVars, chVars>>

-----------------------------------------------------------------------------
(* Bounds of the model *)

\* nested calls the goroutine's stack has room for
MaxDepth == 3

\* registrations and refreshes per behaviour
MaxOps == 2

\* the largest MaxIterations the driver is given
MaxK == 6

\* the most parameters a legacy plugin declares
MaxParams == 2

\* iteration steps one run may dispatch before the model stops following it
MaxSteps == 11

\* concurrent callers of the executors
NumCallers == 2

-----------------------------------------------------------------------------
(* Values *)

None == [kind |-> "none", id |-> "", dir |-> ""]

\* the empty map
EmptyMap == [x \in {} |-> None]

\* m with key k set to v (Go: m[k] = v)
Put(m, k, v) == [x \in (DOMAIN m) \cup {k} |-> IF x = k THEN v ELSE m[x]]

\* Directory names, in the order os.ReadDir returns them (sorted by name)
DirOrder == <<"custom", "ping">>

DirNames == {DirOrder[i] : i \in 1..Len(DirOrder)}

\* Identifiers a caller may name
Ids == DirNames \cup {"network_info", "legacy"}

\* Executors (function values), told apart by where they come from
Wrapper(dir, id) == [kind |-> "wrapper", id |-> id, dir |-> dir]

Helper(dir, id) == [kind |-> "helper", id |-> id, dir |-> dir]

Manual(id) == [kind |-> "manual", id |-> id, dir |-> ""]

BuiltinNetworkInfo == [kind |-> "builtin", id |-> "network_info", dir |-> ""]

NilFunc == [kind |-> "nil", id |-> "", dir |-> ""]

\* Parameters: identifier and required flag (the fields RunPlugin reads)
Param(id, req) == [ID |-> id, Required |-> req]

ParamKeys == {"host", "count"}

\* Parameter mappings a caller may supply: which keys are present
ParamMaps == UNION { [S -> {"v"}] : S \in SUBSET ParamKeys }

\* A text built from parts (fmt.Sprintf, string concatenation): its parts in order
Text(a) == << a >>

Text2(a, b) == << a, b >>

\* types.PluginDefinition (plugin_types.go), the fields the runtime reads
Definition(id, name, desc, version, author, license, icon, params) ==
    [ID |-> id, Name |-> name, Description |-> desc, Version |-> version,
     Author |-> author, License |-> license, Icon |-> icon, Parameters |-> params,
     Requires |-> << >>, Repository |-> ""]

\* the zero value of types.PluginDefinition
ZeroDefinition == Definition("", "", << >>, "", "", "", "", << >>)

\* a manifest as a plugin author writes it
Manifest(id, params) ==
    Definition(id, "Name", Text("Description"), "1.0.0", "Author", "MIT", "icon", params)

\* a manifest that gives an identifier and neither a name nor a description
UnnamedManifest(id) == Definition(id, "", << >>, "1.0.0", "Author", "MIT", "icon", << >>)

-----------------------------------------------------------------------------
(* The plugin directory tree *)

\* What `go run plugin.go --definition` does in a directory
DescribeFails == [state |-> "procError", err |-> "exit status 1", def |-> ZeroDefinition]

DescribeGarbage == [state |-> "badOutput", err |-> "invalid character", def |-> ZeroDefinition]

DescribeOk(def) == [state |-> "ok", err |-> "", def |-> def]

\* A directory: its plugin.json (missing, unreadable, malformed or a manifest),
\* whether plugin.go exists, and what its describe mode prints
Dir(json, def, go, describe) ==
    [present |-> TRUE, json |-> json, def |-> def, go |-> go, describe |-> describe]

NoDir ==
    [present |-> FALSE, json |-> "missing", def |-> ZeroDefinition, go |-> FALSE,
     describe |-> DescribeFails]

DirStates(d) ==
    { NoDir }
    \cup { Dir("ok", Manifest(d, ps), TRUE, DescribeFails) :
             ps \in { << >>, << Param("host", FALSE), Param("count", TRUE) >> } }
    \cup { Dir("ok", Manifest(o, << Param("host", TRUE) >>), TRUE, DescribeFails) :
             o \in DirNames \ {d} }
    \cup { Dir("ok", Manifest(d, << >>), FALSE, DescribeFails) }
    \cup { Dir("ok", UnnamedManifest(d), TRUE, DescribeFails) }
    \cup { Dir("malformed", ZeroDefinition, TRUE, ds) :
             ds \in {DescribeFails, DescribeGarbage,
                     DescribeOk(Manifest(d, << Param("host", TRUE), Param("count", TRUE) >>))} }

\* the trees the model starts from: "ping" in any state, "custom" absent or well-formed
FsConfigs ==
    { f \in [DirNames -> UNION {DirStates(d) : d \in DirNames}] :
        /\ \A d \in DirNames : f[d] \in DirStates(d)
        /\ f["custom"].json = "ok" \/ ~f["custom"].present
        /\ f["custom"].go \/ ~f["custom"].present }

-----------------------------------------------------------------------------
(* The execution registry (PluginRegistry) *)

\* a registry that keeps the first executor registered for an identifier
RegisterPluginFuncKeepFirst(r, id, fn) == IF id \in DOMAIN r THEN r ELSE Put(r, id, fn)

\* RegisterPluginFunc: r.pluginFuncs[id] = fn
RegisterPluginFunc(r, id, fn) == Put(r, id, fn)

\* GetPluginFunc: the function, or the error "plugin function not found: <id>"
GetPluginFunc(r, id) ==
    IF id \in DOMAIN r
    THEN [ok |-> TRUE, fn |-> r[id], err |-> << >>]
    ELSE [ok |-> FALSE, fn |-> None, err |-> Text2("plugin function not found: ", id)]

-----------------------------------------------------------------------------
(* Definition lookup of a dynamic plugin *)

NoCache == [set |-> FALSE, def |-> ZeroDefinition]

Cached(def) == [set |-> TRUE, def |-> def]

\* the definition returned when neither the manifest nor the describe mode gave one
SynthesizedDefinition(pluginID, prefix, err) ==
    Definition(pluginID, pluginID, Text2(prefix, err), "0.0.0", "", "",
               "exclamation-triangle", << >>)

\* a lookup that gives up, with an empty definition, when the describe mode fails
GetDefinitionNoFallback(cache, pluginID, dir) ==
    IF cache.set
    THEN [def |-> cache.def, cache |-> cache, described |-> FALSE]
    ELSE IF dir.json = "ok"
    THEN [def |-> dir.def, cache |-> Cached(dir.def), described |-> FALSE]
    ELSE IF dir.describe.state = "ok"
    THEN [def |-> dir.describe.def, cache |-> Cached(dir.describe.def), described |-> TRUE]
    ELSE [def |-> ZeroDefinition, cache |-> cache, described |-> TRUE]

\* DynamicPlugin.GetDefinition on a plugin whose cached definition is `cache`, in a
\* directory in state `dir`: the definition returned, the cache afterwards, and
\* whether the describe subprocess was run
GetDefinition(cache, pluginID, dir) ==
    IF cache.set
    THEN [def |-> cache.def, cache |-> cache, described |-> FALSE]
    ELSE IF dir.json = "ok"
    THEN [def |-> dir.def, cache |-> Cached(dir.def), described |-> FALSE]
    ELSE IF dir.describe.state = "procError"
    THEN [def |-> SynthesizedDefinition(pluginID, "Error loading plugin: ", dir.describe.err),
          cache |-> cache, described |-> TRUE]
    ELSE IF dir.describe.state = "badOutput"
    THEN [def |-> SynthesizedDefinition(pluginID, "Error parsing definition: ", dir.describe.err),
          cache |-> cache, described |-> TRUE]
    ELSE [def |-> dir.describe.def, cache |-> Cached(dir.describe.def), described |-> TRUE]

-----------------------------------------------------------------------------
(* Discovery: PluginLoader.LoadPlugins and LoadPluginFunc *)

\* LoadPluginFunc: the helper's executor for pluginID, or an error when plugin.go
\* cannot be stat'ed; subnet_calculator gets what the registry already holds
LoadPluginFunc(fsys, r, dir, pluginID) ==
    IF ~fsys[dir].go
    THEN [ok |-> FALSE, fn |-> None]
    ELSE IF pluginID = "subnet_calculator" /\ GetPluginFunc(r, pluginID).ok
    THEN [ok |-> TRUE, fn |-> GetPluginFunc(r, pluginID).fn]
    ELSE [ok |-> TRUE, fn |-> Helper(dir, pluginID)]

\* one Register call: the registry and the calls made so far
Registered(acc, id, fn) ==
    [reg |-> RegisterPluginFunc(acc.reg, id, fn), ops |-> Append(acc.ops, <<id, fn>>)]

\* the body of LoadPlugins' loop for directory d
LoadDir(fsys, acc, d) ==
    LET s == fsys[d] IN
    IF ~s.present \/ s.json = "missing" \/ ~s.go \/ s.json # "ok"
    THEN acc
    ELSE LET pluginID == s.def.ID
             a1 == Registered(acc, pluginID, Wrapper(d, pluginID))
             h  == LoadPluginFunc(fsys, a1.reg, d, pluginID)
         IN  IF pluginID # "dns_lookup" /\ h.ok
             THEN Registered(a1, pluginID, h.fn)
             ELSE a1

RECURSIVE LoadFrom(_, _, _)
LoadFrom(fsys, acc, i) ==
    IF i > Len(DirOrder) THEN acc ELSE LoadFrom(fsys, LoadDir(fsys, acc, DirOrder[i]), i + 1)

\* PluginLoader.LoadPlugins: fails when the plugins directory cannot be read
LoadPlugins(fsys, r, readable) ==
    IF ~readable
    THEN [ok |-> FALSE, reg |-> r, ops |-> << >>]
    ELSE LET a == LoadFrom(fsys, [reg |-> r, ops |-> << >>], 1)
         IN  [ok |-> TRUE, reg |-> a.reg, ops |-> a.ops]

\* PluginLoader.loadPlugin: a DynamicPlugin when plugin.go exists
LoaderLoadPlugin(fsys, d) == fsys[d].go

-----------------------------------------------------------------------------
(* The plugin manager *)

\* plugins.Plugin (plugin_manager.go)
Plugin(id, name, desc, version, author, license, icon, params, execute) ==
    [ID |-> id, Name |-> name, Description |-> desc, Version |-> version,
     Author |-> author, License |-> license, Icon |-> icon, Parameters |-> params,
     Execute |-> execute]

\* convertParameters: a Parameter built field by field from each PluginParam
convertParameters(pluginParams) ==
    [i \in 1..Len(pluginParams) |->
        [ID |-> pluginParams[i].ID, Required |-> pluginParams[i].Required]]

\* the hardcoded plugin RefreshPlugins registers when no directory supplied it
NetworkInfoPlugin ==
    Plugin("network_info", "Network Information", Text("Displays detailed information"),
           "1.0.0", "NetTool Team", "MIT", "network", << >>, BuiltinNetworkInfo)

\* RegisterPlugin: pm.plugins[plugin.ID] = plugin
RegisterPlugin(plugins, plugin) == Put(plugins, plugin.ID, plugin)

\* the zero value of plugins.Plugin
ZeroPlugin == Plugin("", "", << >>, "", "", "", "", << >>, NilFunc)

\* a lookup that drops the map's ok flag and hands back the zero value
GetPluginUnchecked(plugins, id) ==
    [ok |-> TRUE, plugin |-> IF id \in DOMAIN plugins THEN plugins[id] ELSE ZeroPlugin,
     err |-> << >>]

\* GetPlugin: the plugin stored under id, or the error "plugin not found"
GetPlugin(plugins, id) ==
    IF id \in DOMAIN plugins
    THEN [ok |-> TRUE, plugin |-> plugins[id], err |-> << >>]
    ELSE [ok |-> FALSE, plugin |-> ZeroPlugin, err |-> Text("plugin not found")]

\* the body of RefreshPlugins' loop for directory d: the key is the directory name
RefreshDir(fsys, r, plugins, d) ==
    LET f == GetPluginFunc(r, d) IN
    IF ~fsys[d].present \/ ~f.ok \/ ~LoaderLoadPlugin(fsys, d)
    THEN plugins
    ELSE LET definition == GetDefinition(NoCache, d, fsys[d]).def
         IN  Put(plugins, d,
                 Plugin(definition.ID, definition.Name, definition.Description,
                        definition.Version, definition.Author, definition.License,
                        definition.Icon, convertParameters(definition.Parameters), f.fn))

RECURSIVE RefreshFrom(_, _, _, _)
RefreshFrom(fsys, r, plugins, i) ==
    IF i > Len(DirOrder)
    THEN plugins
    ELSE RefreshFrom(fsys, r, RefreshDir(fsys, r, plugins, DirOrder[i]), i + 1)

\* registerIfNotExists
RegisterIfNotExists(plugins, plugin) ==
    IF plugin.ID \in DOMAIN plugins THEN plugins ELSE Put(plugins, plugin.ID, plugin)

\* RefreshPlugins; read1 and read2 say whether the two os.ReadDir calls succeed
RefreshPlugins(fsys, r, plugins, read1, read2) ==
    LET l == LoadPlugins(fsys, r, read1) IN
    IF ~l.ok
    THEN [ok |-> FALSE, reg |-> r, ops |-> << >>, plugins |-> plugins]
    ELSE IF ~read2
    THEN [ok |-> FALSE, reg |-> l.reg, ops |-> l.ops, plugins |-> EmptyMap]
    ELSE [ok |-> TRUE, reg |-> l.reg, ops |-> l.ops,
          plugins |-> RegisterIfNotExists(RefreshFrom(fsys, l.reg, EmptyMap, 1),
                                          NetworkInfoPlugin)]

\* What RunPlugin returns: a result value, an error, or a fault (panic)
Result(kind, err, by) == [kind |-> kind, err |-> err, by |-> by]

NoResult == Result("none", << >>, None)

\* a validation that looks at the first declared parameter only
FirstMissingHeadOnly(ps, params) ==
    IF Len(ps) > 0 /\ ps[1].Required /\ ps[1].ID \notin DOMAIN params THEN 1 ELSE 0

\* the first parameter of ps, in order, that is required and has no key in params
FirstMissing(ps, params) ==
    LET S == {i \in 1..Len(ps) : ps[i].Required /\ ps[i].ID \notin DOMAIN params}
    IN  IF S = {} THEN 0 ELSE CHOOSE i \in S : \A j \in S : i <= j

\* what an executor does when called: env is the outcome its environment decides
CallExecutor(fn, env) ==
    IF fn = NilFunc
    THEN Result("panic", Text("nil function call"), fn)
    ELSE IF env = "ok"
    THEN Result("ok", << >>, fn)
    ELSE Result("error", Text("plugin failed"), fn)

\* RunPlugin(id, params): what it returns and whether plugin.Execute was called
RunPlugin(plugins, id, params, env) ==
    LET g == GetPlugin(plugins, id) IN
    IF ~g.ok
    THEN [res |-> Result("error", g.err, None), invoked |-> FALSE]
    ELSE LET i == FirstMissing(g.plugin.Parameters, params) IN
         IF i # 0
         THEN [res |-> Result("error",
                              Text2("missing required parameter: ", g.plugin.Parameters[i].ID),
                              None),
               invoked |-> FALSE]
         ELSE [res |-> CallExecutor(g.plugin.Execute, env), invoked |-> TRUE]

-----------------------------------------------------------------------------
(* The manager's operations as actions *)

\* executors a plugin's own code may register by hand
ManualFns == {Manual("m1"), Manual("m2")}

\* identifiers registered by hand: one that discovery also finds, one it never does
ManualIds == {"ping", "legacy"}

\* plugins handed to RegisterPlugin
PluginInputs ==
    { Plugin(id, "Name", Text("Description"), "1.0.0", "Author", "MIT", "icon", ps, fn) :
        id \in ManualIds, ps \in { << Param("host", TRUE) >> }, fn \in {Manual("m1"), NilFunc} }

ExecEnvs == {"ok", "error"}

Op(op, ok) == [op |-> op, ok |-> ok]

NoRun ==
    [id |-> "", params |-> EmptyMap, paramsAfter |-> EmptyMap, res |-> NoResult, invoked |-> FALSE]

\* the history of Register calls after the calls `ops` (each <<id, fn>>), in order
LastRegAfter(lr, ops) ==
    [i \in DOMAIN lr |->
        LET K == {k \in 1..Len(ops) : ops[k][1] = i}
        IN  IF K = {} THEN lr[i] ELSE ops[CHOOSE k \in K : \A j \in K : j <= k][2]]

MgrInit ==
    /\ fs \in FsConfigs
    /\ registry = EmptyMap
    /\ pmPlugins = EmptyMap
    /\ lastReg = [i \in Ids |-> None]
    /\ lastOp = Op("init", TRUE)
    /\ lastRun = NoRun
    /\ nOps = 0

MgrRegisterPluginFunc(id, fn) ==
    /\ nOps < MaxOps
    /\ registry' = RegisterPluginFunc(registry, id, fn)
    /\ lastReg' = LastRegAfter(lastReg, << <<id, fn>> >>)
    /\ lastOp' = Op("RegisterPluginFunc", TRUE)
    /\ nOps' = nOps + 1
    /\ lastRun' = NoRun
    /\ UNCHANGED <<fs, pmPlugins>>
    /\ UNCHANGED notMgr

MgrRegisterPlugin(plugin) ==
    /\ nOps < MaxOps
    /\ pmPlugins' = RegisterPlugin(pmPlugins, plugin)
    /\ lastOp' = Op("RegisterPlugin", TRUE)
    /\ nOps' = nOps + 1
    /\ lastRun' = NoRun
    /\ UNCHANGED <<fs, registry, lastReg>>
    /\ UNCHANGED notMgr

MgrRefreshPlugins(read1, read2) ==
    /\ nOps < MaxOps
    /\ LET r == RefreshPlugins(fs, registry, pmPlugins, read1, read2) IN
        /\ registry' = r.reg
        /\ lastReg' = LastRegAfter(lastReg, r.ops)
        /\ pmPlugins' = r.plugins
        /\ lastOp' = Op("RefreshPlugins", r.ok)
    /\ nOps' = nOps + 1
    /\ lastRun' = NoRun
    /\ UNCHANGED fs
    /\ UNCHANGED notMgr

\* a RunPlugin that takes the keys of the required parameters out of the caller's
\* mapping and forgets a plugin whose executor failed
MgrRunPluginConsuming(id, params, env) ==
    /\ LET r == RunPlugin(pmPlugins, id, params, env)
           kept == IF id \in DOMAIN pmPlugins
                   THEN DOMAIN params \ {pmPlugins[id].Parameters[i].ID :
                                            i \in 1..Len(pmPlugins[id].Parameters)}
                   ELSE DOMAIN params
       IN
        /\ lastRun' = [id |-> id, params |-> params,
                       paramsAfter |-> [k \in kept |-> params[k]],
                       res |-> r.res, invoked |-> r.invoked]
        /\ pmPlugins' = IF r.invoked /\ r.res.kind = "error"
                        THEN [k \in DOMAIN pmPlugins \ {id} |-> pmPlugins[k]]
                        ELSE pmPlugins
    /\ lastOp' = Op("RunPlugin", TRUE)
    /\ UNCHANGED <<fs, registry, lastReg, nOps>>
    /\ UNCHANGED notMgr

\* RunPlugin(id, params): the manager's map is only read (under GetPlugin's read
\* lock), and the caller's mapping is only read, by the validation and by the
\* executors
MgrRunPlugin(id, params, env) ==
    /\ LET r == RunPlugin(pmPlugins, id, params, env) IN
        /\ lastRun' = [id |-> id, params |-> params, paramsAfter |-> params,
                       res |-> r.res, invoked |-> r.invoked]
    /\ lastOp' = Op("RunPlugin", TRUE)
    /\ UNCHANGED <<fs, registry, pmPlugins, lastReg, nOps>>
    /\ UNCHANGED notMgr

MgrNext ==
    \/ \E id \in ManualIds, fn \in ManualFns : MgrRegisterPluginFunc(id, fn)
    \/ \E plugin \in PluginInputs : MgrRegisterPlugin(plugin)
    \/ \E read1, read2 \in BOOLEAN : MgrRefreshPlugins(read1, read2)
    \/ \E id \in Ids, params \in ParamMaps, env \in ExecEnvs : MgrRunPlugin(id, params, env)

\* the manager with no work in progress
MgrIdle ==
    /\ fs = [d \in DirNames |-> NoDir]
    /\ registry = EmptyMap
    /\ pmPlugins = EmptyMap
    /\ lastReg = [i \in Ids |-> None]
    /\ lastOp = Op("init", TRUE)
    /\ lastRun = NoRun
    /\ nOps = 0

-----------------------------------------------------------------------------
(* Claims about the plugin manager and the execution registry (SpecMgr) *)

\* the required parameters of the plugin stored under id that params has no key for
MissingRequired(id, params) ==
    { pmPlugins[id].Parameters[i].ID : i \in
        { j \in 1..Len(pmPlugins[id].Parameters) :
            /\ pmPlugins[id].Parameters[j].Required
            /\ pmPlugins[id].Parameters[j].ID \notin DOMAIN params } }

\* C1: RunPlugin on a registered plugin with a parameter mapping that lacks the key
\* of at least one required parameter returns a missing-required-parameter error
\* naming such a parameter, and the plugin's executor is not invoked.
C1_MissingRequiredRejected ==
    ( /\ lastOp.op = "RunPlugin"
      /\ lastRun.id \in DOMAIN pmPlugins
      /\ MissingRequired(lastRun.id, lastRun.params) # {} )
    => /\ lastRun.res.kind = "error"
       /\ Len(lastRun.res.err) = 2
       /\ lastRun.res.err[1] = "missing required parameter: "
       /\ lastRun.res.err[2] \in MissingRequired(lastRun.id, lastRun.params)
       /\ ~lastRun.invoked
       /\ lastRun.res.by = None

\* C1 happens: a run that supplies the first declared parameter and lacks a later,
\* required one
C1_Witness ==
    /\ lastOp.op = "RunPlugin"
    /\ lastRun.id \in DOMAIN pmPlugins
    /\ Len(pmPlugins[lastRun.id].Parameters) = 2
    /\ pmPlugins[lastRun.id].Parameters[1].ID \in DOMAIN lastRun.params
    /\ MissingRequired(lastRun.id, lastRun.params) # {}
    /\ lastRun.res.kind = "error"

\* C2: in every state of the manager, RunPlugin on an identifier that has no entry
\* returns the error "plugin not found": no success, no executor call, no fault.
C2_UnknownIdNotFound ==
    (lastOp.op = "RunPlugin" /\ lastRun.id \notin DOMAIN pmPlugins)
    => /\ lastRun.res = Result("error", Text("plugin not found"), None)
       /\ ~lastRun.invoked

\* C2 happens: after a registration and a refresh, a run of an identifier the
\* manager does not hold although the execution registry does
C2_Witness ==
    /\ lastOp.op = "RunPlugin"
    /\ nOps = MaxOps
    /\ pmPlugins # EmptyMap
    /\ lastRun.id \notin DOMAIN pmPlugins
    /\ lastRun.id \in DOMAIN registry
    /\ lastRun.res.kind = "error"

\* C10: after any sequence of Register calls, Lookup(id) returns the executor of the
\* latest Register(id, _) and the not-found error exactly when id was never
\* registered; so a Register of one identifier changes no other identifier's lookup.
C10_LastWriteWins ==
    \A id \in Ids :
        GetPluginFunc(registry, id) =
            IF lastReg[id] = None
            THEN [ok |-> FALSE, fn |-> None, err |-> Text2("plugin function not found: ", id)]
            ELSE [ok |-> TRUE, fn |-> lastReg[id], err |-> << >>]

\* C10 happens: discovery registered "custom" and "ping" (each twice: the wrapper,
\* then the helper), then "ping" was registered again by hand
C10_Witness ==
    /\ lastOp.op = "RegisterPluginFunc"
    /\ nOps = 2
    /\ fs["ping"].json = "ok" /\ fs["ping"].go /\ fs["ping"].def.ID = "ping"
    /\ "custom" \in DOMAIN registry /\ registry["custom"].kind = "helper"
    /\ "ping" \in DOMAIN registry /\ registry["ping"] \in ManualFns
    /\ "legacy" \notin DOMAIN registry

\* a manifest that lacks an identifier, a display name or a description
Incomplete(def) == def.ID = "" \/ def.Name = "" \/ def.Description = << >>

\* the directories discovery reads a manifest from
Discovered == {d \in DirNames : fs[d].present /\ fs[d].json = "ok" /\ fs[d].go}

\* C13: after a refresh, a directory whose manifest lacks an identifier, a name or a
\* description has no entry in the manager and no executor in the registry.
C13_IncompleteManifestRejected ==
    lastOp = Op("RefreshPlugins", TRUE)
    => \A d \in Discovered :
           Incomplete(fs[d].def)
           => /\ d \notin DOMAIN pmPlugins
              /\ \A id \in DOMAIN registry : registry[id].dir # d

\* C14: after a successful refresh, a directory whose manifest identifier is not the
\* directory's name has an entry in the manager that carries that manifest's
\* identifier and parameters and that directory's executor.
C14_MismatchedIdRegistered ==
    lastOp = Op("RefreshPlugins", TRUE)
    => \A d \in Discovered :
           fs[d].def.ID # d
           => \E k \in DOMAIN pmPlugins :
                  /\ pmPlugins[k].ID = fs[d].def.ID
                  /\ pmPlugins[k].Parameters = convertParameters(fs[d].def.Parameters)
                  /\ pmPlugins[k].Execute.dir = d

\* C15: no two plugins the manager holds (GetPlugins returns one per key) have the
\* same identifier.
C15_UniqueIdentifiers ==
    \A k1, k2 \in DOMAIN pmPlugins :
        pmPlugins[k1].ID = pmPlugins[k2].ID => k1 = k2

\* C16: once the manager has been refreshed, RunPlugin on an identifier that has no
\* plugin directory and whose executor was registered by hand does not return the
\* not-found error.
C16_PreRegisteredRuns ==
    ( /\ lastOp.op = "RunPlugin"
      /\ "network_info" \in DOMAIN pmPlugins
      /\ lastRun.id \in DOMAIN registry
      /\ registry[lastRun.id].kind = "manual"
      /\ lastRun.id \notin {d \in DirNames : fs[d].present} )
    => lastRun.res # Result("error", Text("plugin not found"), None)

\* the tree without directory d
WithoutDir(d) == [fs EXCEPT ![d] = NoDir]

\* whether the manager's plugins after this step, and the call's success, are for
\* every identifier but d what a refresh of the tree without directory d leaves
SameAsWithout(d) ==
    \E read1, read2 \in BOOLEAN :
        LET alt == RefreshPlugins(WithoutDir(d), registry, pmPlugins, read1, read2) IN
        /\ lastOp'.ok = (read1 /\ read2)
        /\ lastOp'.ok = alt.ok
        /\ \A k \in Ids \ {d} :
               /\ k \in DOMAIN pmPlugins' <=> k \in DOMAIN alt.plugins
               /\ k \in DOMAIN pmPlugins' => pmPlugins'[k] = alt.plugins[k]

\* a step of RefreshPlugins
IsRefresh == lastOp'.op = "RefreshPlugins" /\ nOps' = nOps + 1

\* C19: for a directory a scan fails on (manifest missing, unreadable or malformed,
\* plugin.go missing, or no executor registered under the directory's name) the scan
\* succeeds or fails, and registers every other plugin, as it would without that
\* directory.
C19_FaultyDirectoryIsolated ==
    [][ IsRefresh
        => \A d \in DirNames :
               ( /\ fs[d].present
                 /\ fs[d].json # "ok" \/ ~fs[d].go \/ d \notin DOMAIN registry' )
               => SameAsWithout(d)
      ]_vars

\* C19 for the failures that stop at the directory itself: manifest missing,
\* unreadable or malformed, or plugin.go missing
IsolatedWhenUnreadable ==
    [][ IsRefresh
        => \A d \in DirNames :
               (fs[d].present /\ (fs[d].json # "ok" \/ ~fs[d].go)) => SameAsWithout(d)
      ]_vars

\* C31: a RunPlugin call leaves the caller's parameter mapping, the manager's plugins
\* with their definitions, and the registry as they were, whether it succeeds or ends
\* with an unknown identifier, a missing required parameter or an executor failure.
C31_RunPluginChangesNothing ==
    [][ (lastOp'.op = "RunPlugin" /\ lastRun' # lastRun)
        => /\ pmPlugins' = pmPlugins
           /\ registry' = registry
           /\ lastRun'.paramsAfter = lastRun'.params
      ]_vars

\* C31 happens: a run with both parameters supplied whose executor failed
C31_Witness ==
    /\ lastOp.op = "RunPlugin"
    /\ lastRun.invoked
    /\ lastRun.res.kind = "error"
    /\ DOMAIN lastRun.params = {"host", "count"}
    /\ lastRun.paramsAfter = lastRun.params
    /\ Len(pmPlugins[lastRun.id].Parameters) = 2

-----------------------------------------------------------------------------
(* The iteration loop: IterableCLI.Run *)

\* a Go error: nil, or an error with its text (which may be empty)
NilErr == [isNil |-> TRUE, text |-> ""]

Err(text) == [isNil |-> FALSE, text |-> text]

StepErrs == {NilErr, Err("timeout"), Err("")}

\* a loop whose bound is tested one step late
MaxReachedOffByOne(c, count) == c.MaxIterations > 0 /\ count > c.MaxIterations

\* results numbered from 1
IterationResultFromOne(count, result, continueIteration, err) ==
    [IterationCount |-> count + 1, Result |-> result, ContinueIteration |-> continueIteration,
     Error |-> IF err.isNil THEN "" ELSE err.text]

\* types.IterationResult; Error stays "" unless the step's error is not nil
IterationResult(count, result, continueIteration, err) ==
    [IterationCount |-> count, Result |-> result, ContinueIteration |-> continueIteration,
     Error |-> IF err.isNil THEN "" ELSE err.text]

\* NewIterableCLI(plugin): unlimited iterations, terminal mode
NewIterableCLI(supportsIteration) ==
    [SupportsIteration |-> supportsIteration, MaxIterations |-> 0, RunInTerminal |-> TRUE]

\* the test at the top of the loop
MaxReached(c, count) == c.MaxIterations > 0 /\ count >= c.MaxIterations

\* a prompt at which only "n" stops
promptContinueIterationUnlessNo(answer) == answer # "n"

\* a loop that keeps going after a failed step
AfterStepContinueOnError(continueIteration, err) ==
    IF ~continueIteration /\ err.isNil THEN "break" ELSE "next"

\* what the loop does after recording a step: break, or go on to the next one
AfterStep(continueIteration, err) ==
    IF ~continueIteration /\ err.isNil
    THEN "break"
    ELSE IF ~err.isNil THEN "break" ELSE "next"

\* whether the operator is asked once `count` steps have been counted
AsksOperator(c, count) == count > 0 /\ count % 5 = 0

\* promptContinueIteration: only "y" or "yes" continue; unreadable input stops
PromptAnswers == {"y", "yes", "n", "", "readError"}

promptContinueIteration(answer) == answer \in {"y", "yes"}

\* whether the loop sleeps before the next step
Delays(c, count) == count < c.MaxIterations \/ c.MaxIterations = 0

CliInit ==
    /\ cli \in {NewIterableCLI(s) : s \in BOOLEAN}
    /\ cliPc = "idle"
    /\ iterationCount = 0
    /\ Results = << >>
    /\ stepLog = << >>
    /\ prompts = << >>
    /\ sleeps = 0
    /\ cliRet = "none"

\* the values SetMaxIterations is given: the -max flag is any integer, and only a
\* positive one is a bound
MaxIterationsValues == {-1} \cup 0..MaxK

\* SetMaxIterations, before a run
CliSetMaxIterations(k) ==
    /\ cliPc = "idle"
    /\ cli' = [cli EXCEPT !.MaxIterations = k]
    /\ UNCHANGED <<cliPc, iterationCount, Results, stepLog, prompts, sleeps, cliRet>>
    /\ UNCHANGED notCli

\* SetRunInTerminal, before a run
CliSetRunInTerminal(b) ==
    /\ cliPc = "idle"
    /\ cli' = [cli EXCEPT !.RunInTerminal = b]
    /\ UNCHANGED <<cliPc, iterationCount, Results, stepLog, prompts, sleeps, cliRet>>
    /\ UNCHANGED notCli

\* Run is called; a plugin without iteration support is executed once
CliRun(execErr, printErr) ==
    /\ cliPc \in {"idle", "done"}
    /\ stepLog' = << >>
    /\ prompts' = << >>
    /\ sleeps' = 0
    /\ IF ~cli.SupportsIteration
       THEN /\ cliPc' = "done"
            /\ cliRet' = IF ~execErr.isNil \/ printErr THEN "error" ELSE "nil"
            /\ UNCHANGED <<iterationCount, Results>>
       ELSE /\ cliPc' = "loop"
            /\ iterationCount' = 0
            /\ Results' = << >>
            /\ cliRet' = "none"
    /\ UNCHANGED cli
    /\ UNCHANGED notCli

\* where the loop goes once a step has been counted and the operator, if asked, agreed
AfterCount(c, count) == IF Delays(c, count) THEN "sleep" ELSE "loop"

\* the top of the loop: the bound is reached and the loop ends
CliMaxReached ==
    /\ cliPc = "loop"
    /\ MaxReached(cli, iterationCount)
    /\ cliPc' = "done"
    /\ cliRet' = "nil"
    /\ UNCHANGED <<cli, iterationCount, Results, stepLog, prompts, sleeps>>
    /\ UNCHANGED notCli

\* one pass of the loop body: ExecuteIteration, record, print, decide
CliStep(continueIteration, err) ==
    /\ cliPc = "loop"
    /\ ~MaxReached(cli, iterationCount)
    /\ Len(stepLog) < MaxSteps
    /\ stepLog' = Append(stepLog, [count |-> iterationCount,
                                   continueIteration |-> continueIteration, err |-> err])
    /\ Results' = Append(Results, IterationResult(iterationCount, "result", continueIteration, err))
    /\ IF AfterStep(continueIteration, err) = "break"
       THEN /\ cliPc' = "done"
            /\ cliRet' = "nil"
            /\ UNCHANGED iterationCount
       ELSE /\ iterationCount' = iterationCount + 1
            /\ cliPc' = IF AsksOperator(cli, iterationCount + 1)
                        THEN "prompt"
                        ELSE AfterCount(cli, iterationCount + 1)
            /\ UNCHANGED cliRet
    /\ UNCHANGED <<cli, prompts, sleeps>>
    /\ UNCHANGED notCli

\* the operator is asked whether to continue
CliPrompt(answer) ==
    /\ cliPc = "prompt"
    /\ prompts' = Append(prompts, [count |-> iterationCount, answer |-> answer])
    /\ IF promptContinueIteration(answer)
       THEN cliPc' = AfterCount(cli, iterationCount) /\ UNCHANGED cliRet
       ELSE cliPc' = "done" /\ cliRet' = "nil"
    /\ UNCHANGED <<cli, iterationCount, Results, stepLog, sleeps>>
    /\ UNCHANGED notCli

\* time.Sleep(cli.IterationDelay) returns
CliSleep ==
    /\ cliPc = "sleep"
    /\ sleeps' = sleeps + 1
    /\ cliPc' = "loop"
    /\ UNCHANGED <<cli, iterationCount, Results, stepLog, prompts, cliRet>>
    /\ UNCHANGED notCli

CliNext ==
    \/ \E k \in MaxIterationsValues : CliSetMaxIterations(k)
    \/ \E b \in BOOLEAN : CliSetRunInTerminal(b)
    \/ \E e \in StepErrs, pe \in BOOLEAN : CliRun(e, pe)
    \/ CliMaxReached
    \/ \E c \in BOOLEAN, e \in StepErrs : CliStep(c, e)
    \/ \E a \in PromptAnswers : CliPrompt(a)
    \/ CliSleep

\* the driver with no run in progress
CliIdle ==
    /\ cli = NewIterableCLI(FALSE)
    /\ cliPc = "idle"
    /\ iterationCount = 0
    /\ Results = << >>
    /\ stepLog = << >>
    /\ prompts = << >>
    /\ sleeps = 0
    /\ cliRet = "none"

-----------------------------------------------------------------------------
(* The legacy adapters: CompatPlugin and LegacyPluginWrapper *)

\* types.Parameter (the legacy shape); a default, an option value or a *float64 is
\* written as text, "" for none
LegacyParameter(id, type, required, default, options, min, max, step) ==
    [ID |-> id, Name |-> id, Description |-> "about the parameter", Type |-> type,
     Required |-> required, Default |-> default, Options |-> options,
     Min |-> min, Max |-> max, Step |-> step]

\* types.PluginParam
PluginParam(id, name, desc, type, required, default, options, min, max, step, canIterate) ==
    [ID |-> id, Name |-> name, Description |-> desc, Type |-> type,
     Required |-> required, Default |-> default, Options |-> options,
     Min |-> min, Max |-> max, Step |-> step, CanIterate |-> canIterate]

LegacyParameters ==
    { LegacyParameter("host", "string", TRUE, "", << >>, "", "", ""),
      LegacyParameter("count", "number", FALSE, "4", << >>, "1", "10", "1"),
      LegacyParameter("mode", "select", FALSE, "fast",
                      << [Value |-> "fast", Label |-> "Fast"],
                         [Value |-> "slow", Label |-> "Slow"] >>, "", "", ""),
      LegacyParameter("host", "boolean", TRUE, "false", << >>, "", "", "") }

\* sequences over S of length at most n
RECURSIVE SeqsUpTo(_, _)
SeqsUpTo(S, n) ==
    IF n = 0
    THEN { << >> }
    ELSE LET shorter == SeqsUpTo(S, n - 1)
         IN  shorter \cup { Append(q, x) : q \in shorter, x \in S }

\* types.LegacyPlugin
LegacyPlugins ==
    { [ID |-> id, Name |-> id, Description |-> Text2("legacy plugin ", id), Icon |-> icon,
       Parameters |-> ps] :
        id \in {"ping", "whois"}, icon \in {"", "globe"},
        ps \in SeqsUpTo(LegacyParameters, MaxParams) }

\* the parameters both adapters build, field by field
ConvertedParams(ps) ==
    [i \in 1..Len(ps) |->
        PluginParam(ps[i].ID, ps[i].Name, ps[i].Description, ps[i].Type, ps[i].Required,
                    ps[i].Default, ps[i].Options, ps[i].Min, ps[i].Max, ps[i].Step, FALSE)]

\* an adapter that forgets the default and the required flag
CompatPluginDroppingFields(p) ==
    Definition(p.ID, p.Name, p.Description, "0.0.0", "Unknown", "Unknown", p.Icon,
               [i \in 1..Len(p.Parameters) |->
                   [ConvertedParams(p.Parameters)[i] EXCEPT !.Default = "", !.Required = FALSE]])

\* CompatPlugin(p)
CompatPlugin(p) ==
    Definition(p.ID, p.Name, p.Description, "0.0.0", "Unknown", "Unknown", p.Icon,
               ConvertedParams(p.Parameters))

\* ConvertLegacyPluginToNewPlugin(lp, executor): the wrapper keeps both
ConvertLegacyPluginToNewPlugin(lp, executor) == [legacyPlugin |-> lp, executor |-> executor]

\* LegacyPluginWrapper.GetDefinition
WrapperGetDefinition(w) ==
    Definition(w.legacyPlugin.ID, w.legacyPlugin.Name, w.legacyPlugin.Description,
               "1.0.0", "NetTool", "MIT", w.legacyPlugin.Icon,
               ConvertedParams(w.legacyPlugin.Parameters))

NotConverted == [by |-> "none", def |-> ZeroDefinition]

LegInit ==
    /\ legacyPlugin \in LegacyPlugins
    /\ converted = NotConverted

LegCompatPlugin ==
    /\ converted' = [by |-> "CompatPlugin", def |-> CompatPlugin(legacyPlugin)]
    /\ UNCHANGED legacyPlugin
    /\ UNCHANGED notLeg

LegWrapperGetDefinition ==
    /\ converted' = [by |-> "LegacyPluginWrapper",
                     def |-> WrapperGetDefinition(
                                 ConvertLegacyPluginToNewPlugin(legacyPlugin, Manual("m1")))]
    /\ UNCHANGED legacyPlugin
    /\ UNCHANGED notLeg

LegNext == LegCompatPlugin \/ LegWrapperGetDefinition

LegIdle ==
    /\ legacyPlugin = [ID |-> "", Name |-> "", Description |-> << >>, Icon |-> "",
                       Parameters |-> << >>]
    /\ converted = NotConverted

-----------------------------------------------------------------------------
(* One DynamicPlugin object after another, each asked once for its definition while
   the files of its directory change *)

DpPluginID == "ping"

\* the states of the directory: plugin.go exists (loadPlugin made the object)
DpDirStates ==
    { Dir(j, ZeroDefinition, TRUE, ds) :
        j \in {"missing", "unreadable", "malformed"},
        ds \in {DescribeFails, DescribeGarbage,
                DescribeOk(Manifest(DpPluginID, << Param("count", TRUE) >>)),
                DescribeOk(ZeroDefinition)} }
    \cup
    { Dir("ok", def, TRUE, ds) :
        def \in {Manifest(DpPluginID, << Param("host", TRUE) >>),
                 Manifest("other", << >>), ZeroDefinition},
        ds \in {DescribeFails, DescribeOk(Manifest(DpPluginID, << Param("count", TRUE) >>))} }

NoDpCall ==
    [called |-> FALSE, def |-> ZeroDefinition, described |-> FALSE, dir |-> NoDir]

DpInit ==
    /\ dpDir \in DpDirStates
    /\ dpCache = NoCache
    /\ dpLast = NoDpCall

\* definition := plugin.GetDefinition(), the one call the manager makes on the
\* object that loader.loadPlugin returned
DpGetDefinition ==
    /\ ~dpLast.called
    /\ LET r == GetDefinition(dpCache, DpPluginID, dpDir) IN
        /\ dpCache' = r.cache
        /\ dpLast' = [called |-> TRUE, def |-> r.def, described |-> r.described,
                      dir |-> dpDir]
    /\ UNCHANGED dpDir
    /\ UNCHANGED notDp

\* loader.loadPlugin makes a new object for the same directory
DpLoadPlugin ==
    /\ LoaderLoadPlugin([d \in {DpPluginID} |-> dpDir], DpPluginID)
    /\ dpCache' = NoCache
    /\ dpLast' = NoDpCall
    /\ UNCHANGED dpDir
    /\ UNCHANGED notDp

\* the installer or the plugin's author rewrites the directory's files
DpFilesChange(d) ==
    /\ d # dpDir
    /\ dpDir' = d
    /\ UNCHANGED <<dpCache, dpLast>>
    /\ UNCHANGED notDp

DpNext ==
    \/ DpGetDefinition
    \/ DpLoadPlugin
    \/ \E d \in DpDirStates : DpFilesChange(d)

DpIdle ==
    /\ dpDir = NoDir
    /\ dpCache = NoCache
    /\ dpLast = NoDpCall

-----------------------------------------------------------------------------
(* Executions that build, load or start a subprocess: the closure that
   LoadPluginFunc returns (default branch), a native executor such as
   executePing, and DynamicPlugin.executeWithMain.  Callers run concurrently;
   the subprocess and the files are the environment. *)

Callers == 1..NumCallers

\* what plugin.Open, Lookup("Plugin") and the call of the symbol find in the artifact
ArtifactStates == {"missing", "unloadable", "noSymbol", "notFunc", "notMap", "noExecute", "ok"}

\* what a successful build leaves on disk
BuiltArtifacts == ArtifactStates \ {"missing"}

\* the errors of the build-and-load tier
BuildLoadFailures == {"failed to build plugin", "failed to load plugin",
                      "does not export Plugin symbol", "did not return a map",
                      "does not provide a valid execute function"}

\* the resolution tiers
Tiers == {"native", "build-and-load", "subprocess", "registry"}

\* the tier an executor belongs to
TierOf(kind) ==
    CASE kind = "helper" -> "build-and-load"
      [] kind = "native" -> "native"
      [] kind = "main" -> "subprocess"

\* the command an executor hands to the operating system
CommandOf(kind) ==
    CASE kind = "helper" -> "build"
      [] kind = "native" -> "tool"
      [] kind = "main" -> "run"

\* what the executor makes of its command's failure
CommandFailed(cmd) ==
    CASE cmd = "build" -> "failed to build plugin"
      [] cmd = "tool" -> "command failed"
      [] cmd = "run" -> "failed to execute plugin"

\* plugin.Open, p.Lookup("Plugin"), the reflective call, the two type assertions and
\* execFunc(params), on the artifact `a`; execOk is what the plugin's own code does
LoadAndCall(a, execOk) ==
    CASE a \in {"missing", "unloadable"} -> "failed to load plugin"
      [] a = "noSymbol" -> "does not export Plugin symbol"
      [] a = "notFunc" -> "panic"
      [] a = "notMap" -> "did not return a map"
      [] a = "noExecute" -> "does not provide a valid execute function"
      [] a = "ok" -> IF execOk THEN "ok" ELSE "plugin error"

ExeInit ==
    /\ artifact \in {"missing", "ok"}
    /\ exePc = [c \in Callers |-> "idle"]
    /\ exeKind = [c \in Callers |-> "none"]
    /\ exeCmd = [c \in Callers |-> "none"]
    /\ exeRes = [c \in Callers |-> "none"]
    /\ exeTried = [c \in Callers |-> {}]
    /\ exeCalls = [c \in Callers |-> 0]
    /\ exeBuilds = [c \in Callers |-> 0]
    /\ exeBuilt = FALSE
    /\ exeFound = [c \in Callers |-> "none"]

\* a caller enters an executor: the helper closure goes to its stat of the artifact,
\* the other two straight to their command
ExeCall(c, kind) ==
    /\ exePc[c] = "idle"
    /\ exeKind' = [exeKind EXCEPT ![c] = kind]
    /\ exeTried' = [exeTried EXCEPT ![c] = {TierOf(kind)}]
    /\ exeRes' = [exeRes EXCEPT ![c] = "none"]
    /\ IF kind = "helper"
       THEN /\ exePc' = [exePc EXCEPT ![c] = "stat"]
            /\ exeCmd' = [exeCmd EXCEPT ![c] = "none"]
       ELSE /\ exePc' = [exePc EXCEPT ![c] = "exec"]
            /\ exeCmd' = [exeCmd EXCEPT ![c] = CommandOf(kind)]
    /\ exeCalls' = [exeCalls EXCEPT ![c] = @ + 1]
    /\ UNCHANGED <<artifact, exeBuilds, exeBuilt, exeFound>>
    /\ UNCHANGED notExe

\* what os.Stat(pluginPath) finds for caller c: no artifact, an artifact that a build
\* of an earlier execution left while no other execution is under way, or another one
Found(c) ==
    IF artifact = "missing" THEN "missing"
    ELSE IF exeBuilt /\ \A d \in Callers \ {c} : exePc[d] = "idle" THEN "cached"
    ELSE "present"

\* a closure that builds whatever os.Stat finds
ExeStatAlwaysBuilds(c) ==
    /\ exePc[c] = "stat"
    /\ exeFound' = [exeFound EXCEPT ![c] = Found(c)]
    /\ exePc' = [exePc EXCEPT ![c] = "exec"]
    /\ exeCmd' = [exeCmd EXCEPT ![c] = "build"]
    /\ exeBuilds' = [exeBuilds EXCEPT ![c] = @ + 1]
    /\ UNCHANGED <<artifact, exeKind, exeRes, exeTried, exeCalls, exeBuilt>>
    /\ UNCHANGED notExe

\* os.Stat(pluginPath): no artifact, so build it; otherwise go on to load it
ExeStat(c) ==
    /\ exePc[c] = "stat"
    /\ exeFound' = [exeFound EXCEPT ![c] = Found(c)]
    /\ IF artifact = "missing"
       THEN /\ exePc' = [exePc EXCEPT ![c] = "exec"]
            /\ exeCmd' = [exeCmd EXCEPT ![c] = "build"]
            /\ exeBuilds' = [exeBuilds EXCEPT ![c] = @ + 1]
       ELSE /\ exePc' = [exePc EXCEPT ![c] = "load"]
            /\ UNCHANGED <<exeCmd, exeBuilds>>
    /\ UNCHANGED <<artifact, exeKind, exeRes, exeTried, exeCalls, exeBuilt>>
    /\ UNCHANGED notExe

\* an executor that goes back to its stat of the artifact when its build fails
AfterCommandRetrying(c, ok) ==
    IF ~ok /\ exeCmd[c] = "build"
    THEN /\ exePc' = [exePc EXCEPT ![c] = "stat"]
         /\ UNCHANGED exeRes
    ELSE IF ~ok
    THEN /\ exePc' = [exePc EXCEPT ![c] = "done"]
         /\ exeRes' = [exeRes EXCEPT ![c] = CommandFailed(exeCmd[c])]
    ELSE IF exeCmd[c] = "build"
    THEN /\ exePc' = [exePc EXCEPT ![c] = "load"]
         /\ UNCHANGED exeRes
    ELSE /\ exePc' = [exePc EXCEPT ![c] = "done"]
         /\ exeRes' = [exeRes EXCEPT ![c] = "ok"]

\* the command has ended with an error or with success: what the executor does next
AfterCommand(c, ok) ==
    IF ~ok
    THEN /\ exePc' = [exePc EXCEPT ![c] = "done"]
         /\ exeRes' = [exeRes EXCEPT ![c] = CommandFailed(exeCmd[c])]
    ELSE IF exeCmd[c] = "build"
    THEN /\ exePc' = [exePc EXCEPT ![c] = "load"]
         /\ UNCHANGED exeRes
    ELSE /\ exePc' = [exePc EXCEPT ![c] = "done"]
         /\ exeRes' = [exeRes EXCEPT ![c] = "ok"]

\* exec.Command(...).CombinedOutput() starts the process, or fails to start it and
\* returns the error at once
ExeRun(c, started) ==
    /\ exePc[c] = "exec"
    /\ IF started
       THEN /\ exePc' = [exePc EXCEPT ![c] = "waiting"]
            /\ UNCHANGED exeRes
       ELSE AfterCommand(c, FALSE)
    /\ UNCHANGED <<artifact, exeKind, exeCmd, exeTried, exeCalls, exeBuilds, exeBuilt, exeFound>>
    /\ UNCHANGED notExe

\* the subprocess exits and CombinedOutput returns; a build that succeeded has
\* written the artifact
ExeProcExit(c, ok, built) ==
    /\ exePc[c] = "waiting"
    /\ AfterCommand(c, ok)
    /\ artifact' = IF ok /\ exeCmd[c] = "build" THEN built ELSE artifact
    /\ exeBuilt' = IF ok /\ exeCmd[c] = "build" THEN TRUE ELSE exeBuilt
    /\ UNCHANGED <<exeKind, exeCmd, exeTried, exeCalls, exeBuilds, exeFound>>
    /\ UNCHANGED notExe

\* the helper closure loads the artifact and calls what it exports
ExeLoad(c, execOk) ==
    /\ exePc[c] = "load"
    /\ exePc' = [exePc EXCEPT ![c] = "done"]
    /\ exeRes' = [exeRes EXCEPT ![c] = LoadAndCall(artifact, execOk)]
    /\ UNCHANGED <<artifact, exeKind, exeCmd, exeTried, exeCalls, exeBuilds, exeBuilt, exeFound>>
    /\ UNCHANGED notExe

\* the executor returns exeRes[c] to its caller and its locals are gone
ExeReturn(c) ==
    /\ exePc[c] = "done"
    /\ exePc' = [exePc EXCEPT ![c] = "idle"]
    /\ exeKind' = [exeKind EXCEPT ![c] = "none"]
    /\ exeCmd' = [exeCmd EXCEPT ![c] = "none"]
    /\ exeRes' = [exeRes EXCEPT ![c] = "none"]
    /\ exeTried' = [exeTried EXCEPT ![c] = {}]
    /\ exeCalls' = [exeCalls EXCEPT ![c] = 0]
    /\ exeBuilds' = [exeBuilds EXCEPT ![c] = 0]
    /\ exeFound' = [exeFound EXCEPT ![c] = "none"]
    /\ UNCHANGED <<artifact, exeBuilt>>
    /\ UNCHANGED notExe

\* the artifact is removed (the plugin is reinstalled or its directory cleaned)
ExeArtifactRemoved ==
    /\ artifact # "missing"
    /\ artifact' = "missing"
    /\ exeBuilt' = FALSE
    /\ UNCHANGED <<exePc, exeKind, exeCmd, exeRes, exeTried, exeCalls, exeBuilds, exeFound>>
    /\ UNCHANGED notExe

\* the steps the program takes by itself
ExeProgram ==
    \E c \in Callers :
        \/ ExeStat(c)
        \/ \E execOk \in BOOLEAN : ExeLoad(c, execOk)
        \/ ExeReturn(c)

\* the steps that wait for the callers, the operating system or the subprocess
ExeEnvironment ==
    \/ \E c \in Callers, kind \in {"helper", "native", "main"} : ExeCall(c, kind)
    \/ \E c \in Callers, started \in BOOLEAN : ExeRun(c, started)
    \/ \E c \in Callers, ok \in BOOLEAN, built \in BuiltArtifacts : ExeProcExit(c, ok, built)
    \/ ExeArtifactRemoved

ExeNext == ExeProgram \/ ExeEnvironment

ExeIdle ==
    /\ artifact = "missing"
    /\ exePc = [c \in Callers |-> "idle"]
    /\ exeKind = [c \in Callers |-> "none"]
    /\ exeCmd = [c \in Callers |-> "none"]
    /\ exeRes = [c \in Callers |-> "none"]
    /\ exeTried = [c \in Callers |-> {}]
    /\ exeCalls = [c \in Callers |-> 0]
    /\ exeBuilds = [c \in Callers |-> 0]
    /\ exeBuilt = FALSE
    /\ exeFound = [c \in Callers |-> "none"]

-----------------------------------------------------------------------------
(* The manager's lock pm.mu: RefreshPlugins takes the write lock and keeps it
   until it returns (defer), GetPlugin takes the read lock for its map read.
   The describe subprocess and the executors are the environment. *)

\* sync.RWMutex: Lock waits for the writer and the readers to leave
CanLock(m) == ~m.writer /\ m.readers = 0

\* sync.RWMutex: RLock waits while a writer holds the lock or waits for it
CanRLock(m, writerWaits) == ~m.writer /\ ~writerWaits

Unlocked == [writer |-> FALSE, readers |-> 0]

\* what a caller found in the map: its keys, and whether the map was whole
Saw(keys, whole) == [seen |-> TRUE, keys |-> keys, whole |-> whole]

NotSeen == [seen |-> FALSE, keys |-> {}, whole |-> TRUE]

LockInit ==
    /\ mu = Unlocked
    /\ rfPc = "idle"
    /\ rfEntry = 0
    /\ rnPc = [c \in Callers |-> "idle"]
    /\ rnId = [c \in Callers |-> "none"]
    /\ rfKeys = {}
    /\ rfBefore = {}
    /\ rfWhole = TRUE
    /\ rnSaw = [c \in Callers |-> NotSeen]
    /\ rnDuring = [c \in Callers |-> FALSE]

\* RefreshPlugins is called; it begins with loader.LoadPlugins(), outside the lock
RfCall ==
    /\ rfPc = "idle"
    /\ rfPc' = "loading"
    /\ rnDuring' = [c \in Callers |-> rnDuring[c] \/ rnPc[c] \in {"rlock", "reading"}]
    /\ UNCHANGED <<mu, rfEntry, rnPc, rnId, rfKeys, rfBefore, rfWhole, rnSaw>>
    /\ UNCHANGED notLock

\* LoadPlugins returns: an error ends the refresh, success goes on to pm.mu.Lock()
RfLoaded(ok) ==
    /\ rfPc = "loading"
    /\ rfPc' = IF ok THEN "wantLock" ELSE "idle"
    /\ UNCHANGED <<mu, rfEntry, rnPc, rnId, rfKeys, rfBefore, rfWhole, rnSaw, rnDuring>>
    /\ UNCHANGED notLock

\* pm.mu.Lock(), then the map is replaced
RfLock ==
    /\ rfPc = "wantLock"
    /\ CanLock(mu)
    /\ mu' = [mu EXCEPT !.writer = TRUE]
    /\ rfPc' = "readdir"
    /\ rfBefore' = rfKeys
    /\ rfKeys' = {}
    /\ rfWhole' = FALSE
    /\ UNCHANGED <<rfEntry, rnPc, rnId, rnSaw, rnDuring>>
    /\ UNCHANGED notLock

\* the refresh returns: the deferred pm.mu.Unlock() runs
RfFinish ==
    /\ mu' = [mu EXCEPT !.writer = FALSE]
    /\ rfPc' = "idle"
    /\ rfEntry' = 0

\* the entry the loop is at is stored under its directory name or skipped; the
\* loop goes to the next entry, or after the last one network_info is added if
\* absent and the refresh returns
RfAdvance(stored) ==
    LET keys == IF stored THEN rfKeys \cup {DirOrder[rfEntry]} ELSE rfKeys IN
    IF rfEntry = Len(DirOrder)
    THEN /\ RfFinish
         /\ rfKeys' = keys \cup {"network_info"}
         /\ rfWhole' = TRUE
         /\ UNCHANGED rfBefore
    ELSE /\ rfEntry' = rfEntry + 1
         /\ rfPc' = "entry"
         /\ rfKeys' = keys
         /\ UNCHANGED <<mu, rfBefore, rfWhole>>

\* os.ReadDir inside the lock: an error returns, success starts the loop
RfReadDir(ok) ==
    /\ rfPc = "readdir"
    /\ IF ok
       THEN /\ rfEntry' = 1
            /\ rfPc' = "entry"
            /\ UNCHANGED <<mu, rfWhole>>
       ELSE /\ RfFinish
            /\ rfWhole' = (rfBefore = rfKeys)
    /\ UNCHANGED <<rnPc, rnId, rfKeys, rfBefore, rnSaw, rnDuring>>
    /\ UNCHANGED notLock

\* one directory entry: skipped or defined by its manifest at once, or its
\* GetDefinition starts the describe subprocess and waits for it
RfEntry(describes, stored) ==
    /\ rfPc = "entry"
    /\ IF describes
       THEN /\ rfPc' = "describing"
            /\ UNCHANGED <<mu, rfEntry, rfKeys, rfBefore, rfWhole>>
       ELSE RfAdvance(stored)
    /\ UNCHANGED <<rnPc, rnId, rnSaw, rnDuring>>
    /\ UNCHANGED notLock

\* the describe subprocess exits and GetDefinition returns
RfDescribeExit(stored) ==
    /\ rfPc = "describing"
    /\ RfAdvance(stored)
    /\ UNCHANGED <<rnPc, rnId, rnSaw, rnDuring>>
    /\ UNCHANGED notLock

\* a caller calls RunPlugin(id, params), which begins with GetPlugin's RLock
RnCall(c, id) ==
    /\ rnPc[c] = "idle"
    /\ rnPc' = [rnPc EXCEPT ![c] = "rlock"]
    /\ rnId' = [rnId EXCEPT ![c] = id]
    /\ rnDuring' = [rnDuring EXCEPT ![c] = rfPc # "idle"]
    /\ UNCHANGED <<mu, rfPc, rfEntry, rfKeys, rfBefore, rfWhole, rnSaw>>
    /\ UNCHANGED notLock

\* pm.mu.RLock() in GetPlugin
RnRLock(c) ==
    /\ rnPc[c] = "rlock"
    /\ CanRLock(mu, rfPc = "wantLock")
    /\ mu' = [mu EXCEPT !.readers = @ + 1]
    /\ rnPc' = [rnPc EXCEPT ![c] = "reading"]
    /\ UNCHANGED <<rfPc, rfEntry, rnId, rfKeys, rfBefore, rfWhole, rnSaw, rnDuring>>
    /\ UNCHANGED notLock

\* GetPlugin reads the map and returns (deferred RUnlock); RunPlugin then returns an
\* error (not found, missing parameter) or calls the executor, outside the lock
RnGetPlugin(c, runs) ==
    /\ rnPc[c] = "reading"
    /\ mu' = [mu EXCEPT !.readers = @ - 1]
    /\ rnPc' = [rnPc EXCEPT ![c] = IF runs THEN "executing" ELSE "done"]
    /\ rnSaw' = [rnSaw EXCEPT ![c] = Saw(rfKeys, rfWhole)]
    /\ UNCHANGED <<rfPc, rfEntry, rnId, rfKeys, rfBefore, rfWhole, rnDuring>>
    /\ UNCHANGED notLock

\* the executor returns
RnExecuted(c) ==
    /\ rnPc[c] = "executing"
    /\ rnPc' = [rnPc EXCEPT ![c] = "done"]
    /\ UNCHANGED <<mu, rfPc, rfEntry, rnId, rfKeys, rfBefore, rfWhole, rnSaw, rnDuring>>
    /\ UNCHANGED notLock

\* RunPlugin has returned to its caller
RnReturn(c) ==
    /\ rnPc[c] = "done"
    /\ rnPc' = [rnPc EXCEPT ![c] = "idle"]
    /\ rnId' = [rnId EXCEPT ![c] = "none"]
    /\ rnSaw' = [rnSaw EXCEPT ![c] = NotSeen]
    /\ rnDuring' = [rnDuring EXCEPT ![c] = FALSE]
    /\ UNCHANGED <<mu, rfPc, rfEntry, rfKeys, rfBefore, rfWhole>>
    /\ UNCHANGED notLock

\* the steps RefreshPlugins takes by itself
RfProgram ==
    \/ \E ok \in BOOLEAN : RfLoaded(ok)
    \/ RfLock
    \/ \E ok \in BOOLEAN : RfReadDir(ok)
    \/ \E describes, stored \in BOOLEAN : RfEntry(describes, stored)

\* the steps one RunPlugin call takes by itself
RnProgram(c) ==
    \/ RnRLock(c)
    \/ \E runs \in BOOLEAN : RnGetPlugin(c, runs)
    \/ RnReturn(c)

\* the steps that wait for a caller, a subprocess or a plugin's own code
LockEnvironment ==
    \/ RfCall
    \/ \E stored \in BOOLEAN : RfDescribeExit(stored)
    \/ \E c \in Callers, id \in DirNames : RnCall(c, id)
    \/ \E c \in Callers : RnExecuted(c)

LockNext ==
    \/ RfProgram
    \/ \E c \in Callers : RnProgram(c)
    \/ LockEnvironment

LockIdle ==
    /\ mu = Unlocked
    /\ rfPc = "idle"
    /\ rfEntry = 0
    /\ rnPc = [c \in Callers |-> "idle"]
    /\ rnId = [c \in Callers |-> "none"]
    /\ rfKeys = {}
    /\ rfBefore = {}
    /\ rfWhole = TRUE
    /\ rnSaw = [c \in Callers |-> NotSeen]
    /\ rnDuring = [c \in Callers |-> FALSE]

-----------------------------------------------------------------------------
(* The subprocess tier: DynamicPlugin.executeWithMain runs
   go run plugin.go --execute=<params as JSON> and reads what it prints *)

\* a Go value of type interface{}: nil, a decoded JSON value, or the envelope
\* {"result": <raw text>, "params": <params>}
Value(kind, repr, params) == [kind |-> kind, repr |-> repr, params |-> params]

NilValue == Value("nil", "", EmptyMap)

\* what the plugin process may print (standard output and standard error combined)
Outputs == {"", "{\"success\":true}", "42", "null", "ping: unknown host", "{\"success\":"}

\* json.Unmarshal(output, &result): the decoded value, or an error
JsonUnmarshal(output) ==
    CASE output = "{\"success\":true}" -> [ok |-> TRUE, value |-> Value("object", "success=true", EmptyMap)]
      [] output = "42" -> [ok |-> TRUE, value |-> Value("number", "42", EmptyMap)]
      [] output = "null" -> [ok |-> TRUE, value |-> NilValue]
      [] OTHER -> [ok |-> FALSE, value |-> NilValue]

\* what executeWithMain returns
Returned(value, err) == [called |-> TRUE, value |-> value, err |-> err]

NotReturned == [called |-> FALSE, value |-> NilValue, err |-> NilErr]

\* an executeWithMain that reports unparsable output as an error
executeWithMainStrict(params, marshalable, exitOk, output) ==
    IF ~marshalable
    THEN Returned(NilValue, Err("failed to marshal parameters"))
    ELSE IF ~exitOk
    THEN Returned(NilValue, Err("failed to execute plugin"))
    ELSE IF ~JsonUnmarshal(output).ok
    THEN Returned(NilValue, Err("invalid output"))
    ELSE Returned(JsonUnmarshal(output).value, NilErr)

\* executeWithMain(params): json.Marshal, run the process, decode what it printed
executeWithMain(params, marshalable, exitOk, output) ==
    IF ~marshalable
    THEN Returned(NilValue, Err("failed to marshal parameters"))
    ELSE IF ~exitOk
    THEN Returned(NilValue, Err("failed to execute plugin"))
    ELSE IF ~JsonUnmarshal(output).ok
    THEN Returned(Value("envelope", output, params), NilErr)
    ELSE Returned(JsonUnmarshal(output).value, NilErr)

\* the calls: any parameters, a process that exits with or without success
SubInputs ==
    [params : ParamMaps, marshalable : BOOLEAN, exitOk : BOOLEAN, output : Outputs]

SubInit ==
    /\ subIn \in SubInputs
    /\ subOut = NotReturned

\* the call is made and returns
SubExecuteWithMain ==
    /\ ~subOut.called
    /\ subOut' = executeWithMain(subIn.params, subIn.marshalable, subIn.exitOk, subIn.output)
    /\ UNCHANGED subIn
    /\ UNCHANGED notSub

SubNext == SubExecuteWithMain

SubIdle ==
    /\ subIn = [params |-> EmptyMap, marshalable |-> TRUE, exitOk |-> TRUE, output |-> ""]
    /\ subOut = NotReturned

-----------------------------------------------------------------------------
(* The command-line driver cmd/iterate: main loads the plugin, then runs it
   through the iteration loop or once *)

\* the methods of the interface types.Plugin
PluginMethods == {"GetDefinition", "Execute"}

\* the methods of the interface types.IterablePlugin
IterablePluginMethods == PluginMethods \cup {"SupportsIteration", "ExecuteIteration"}

\* the methods of *SimplePluginWrapper, the type the driver's loadPlugin returns
SimplePluginWrapperMethods == {"GetDefinition", "Execute"}

\* the type assertion pluginInstance.(types.IterablePlugin) on a value whose type has
\* the given methods
IsIterablePlugin(methods) == IterablePluginMethods \subseteq methods

\* the methods of the value loadPlugin returns for a plugin whose own type has
\* pluginMethods: always a *SimplePluginWrapper around its execute function
LoadedMethods(pluginMethods) == SimplePluginWrapperMethods

NotRun == [ran |-> FALSE, mode |-> "none", maxIterations |-> 0, exit |-> 0]

Ran(mode, maxIterations, exit) ==
    [ran |-> TRUE, mode |-> mode, maxIterations |-> maxIterations, exit |-> exit]

\* main: the flags are checked, the plugin loaded, the parameters parsed, and the
\* plugin run by the iteration loop or by a single Execute call
Main(in) ==
    IF in.plugin = "" \/ ~in.loadOk \/ ~in.paramsOk
    THEN Ran("none", 0, 1)
    ELSE IF in.iterate /\ IsIterablePlugin(LoadedMethods(in.pluginMethods))
    THEN Ran("engine", in.max, IF in.runOk THEN 0 ELSE 1)
    ELSE Ran("single", 0, IF in.runOk THEN 0 ELSE 1)

\* the command lines and plugins of the model
DrvInputs ==
    [plugin : {"", "iterative_ping"}, loadOk : BOOLEAN, paramsOk : BOOLEAN,
     iterate : BOOLEAN, max : 0..MaxK, runOk : BOOLEAN,
     pluginMethods : {PluginMethods, IterablePluginMethods}]

DrvInit ==
    /\ drvIn \in DrvInputs
    /\ drvOut = NotRun

\* the driver runs
DrvMain ==
    /\ ~drvOut.ran
    /\ drvOut' = Main(drvIn)
    /\ UNCHANGED drvIn
    /\ UNCHANGED notDrv

DrvNext == DrvMain

DrvIdle ==
    /\ drvIn = [plugin |-> "", loadOk |-> FALSE, paramsOk |-> FALSE, iterate |-> FALSE,
                max |-> 0, runOk |-> FALSE, pluginMethods |-> PluginMethods]
    /\ drvOut = NotRun

-----------------------------------------------------------------------------
(* The bandwidth test: executeBandwidthTest and its three sources *)

\* the tools in the order executeBandwidthTest runs them: runLibreSpeedCLI,
\* runOoklaSpeedtest, runLegacySpeedtest
Sources == <<"librespeed-cli", "speedtest", "speedtest-cli">>

\* the prefix each failed attempt gets in attemptNotes
NoteLabels == <<"librespeed-cli", "speedtest binary", "speedtest-cli">>

\* what a tool does: it answers, it is not installed (exec.LookPath), it exits with an
\* error (cmd.Run), or prints what is not JSON (json.Unmarshal)
ToolOutcomes == {"ok", "not found", "exit status 1", "parse json"}

\* run<Tool>(): the measurement tagged with its source, or the error
runSource(i, env) ==
    IF env[i] = "ok"
    THEN [source |-> Sources[i], note |-> << >>, err |-> NilErr]
    ELSE [source |-> "", note |-> << >>, err |-> Err(env[i])]

\* fmt.Sprintf("<label>: %v", err)
AttemptNote(i, err) == <<NoteLabels[i], err.text>>

\* a simulated result that does not say what was attempted
simulateBandwidthTestNoAttempts(notes) ==
    [source |-> "simulated", note |-> <<"Simulated bandwidth test results">>, err |-> NilErr]

\* simulateBandwidthTest(notes): random figures (left out), source "simulated", and a
\* note that joins the attempt notes in their order
simulateBandwidthTest(notes) ==
    [source |-> "simulated",
     note |-> IF Len(notes) > 0
              THEN <<"Simulated bandwidth test results", "attempts">> \o notes
              ELSE <<"Simulated bandwidth test results">>,
     err |-> NilErr]

BwNotReturned == [returned |-> FALSE, ran |-> << >>, result |-> [source |-> "", note |-> << >>, err |-> NilErr]]

BwReturned(ran, result) == [returned |-> TRUE, ran |-> ran, result |-> result]

\* executeBandwidthTest: each source in turn, the first that answers is returned;
\* `ran` lists the run functions that were called
executeBandwidthTest(env) ==
    LET r1 == runSource(1, env)
        r2 == runSource(2, env)
        r3 == runSource(3, env)
    IN IF r1.err.isNil THEN BwReturned(<<Sources[1]>>, r1)
       ELSE IF r2.err.isNil THEN BwReturned(<<Sources[1], Sources[2]>>, r2)
       ELSE IF r3.err.isNil THEN BwReturned(<<Sources[1], Sources[2], Sources[3]>>, r3)
       ELSE BwReturned(<<Sources[1], Sources[2], Sources[3]>>,
                       simulateBandwidthTest(<<AttemptNote(1, r1.err), AttemptNote(2, r2.err),
                                               AttemptNote(3, r3.err)>>))

BwInit ==
    /\ bwEnv \in [1..3 -> ToolOutcomes]
    /\ bwOut = BwNotReturned

\* the bandwidth test is run
BwExecuteBandwidthTest ==
    /\ ~bwOut.returned
    /\ bwOut' = executeBandwidthTest(bwEnv)
    /\ UNCHANGED bwEnv
    /\ UNCHANGED notBw

BwNext == BwExecuteBandwidthTest

BwIdle ==
    /\ bwEnv = [i \in 1..3 |-> "not found"]
    /\ bwOut = BwNotReturned

-----------------------------------------------------------------------------
(* The native executors that run an external command: executePing,
   executeTraceroute, executeDNSLookup, executePortScanner *)

NativeIds == {"ping", "traceroute", "dns_lookup", "port_scanner"}

\* the host or domain parameter: absent (or not a string) reads as ""
Hosts == {"", "example.com", "10.0.0.1"}

\* the count parameter: absent (or not a number) reads as 0
Counts == {0, 2}

\* executeCommand(cmd): the command cannot be run, or runs and exits non-zero, or
\* runs and exits zero; the error and the combined output it returns
CommandOutcomes == {"cannot run", "exit status 1", "ok"}

executeCommand(cmd, outcome) ==
    CASE outcome = "ok" -> [output |-> "out", err |-> NilErr]
      [] outcome = "exit status 1" -> [output |-> "partial", err |-> Err("exit status 1")]
      [] outcome = "cannot run" -> [output |-> "", err |-> Err("executable file not found")]

NoCommand == << >>

\* a native executor's return values; `command` and `success` are the keys of the
\* result map, which is nil when hasResult is FALSE
NatReturned(hasResult, command, output, success, err) ==
    [returned |-> TRUE, hasResult |-> hasResult, command |-> command, output |-> output,
     success |-> success, err |-> err]

NatNotReturned ==
    [returned |-> FALSE, hasResult |-> FALSE, command |-> NoCommand, output |-> "",
     success |-> FALSE, err |-> NilErr]

\* the three executors that return the map whatever the command did
ResultWhateverHappened(cmd, outcome) ==
    LET r == executeCommand(cmd, outcome) IN
    NatReturned(TRUE, cmd, r.output, r.err.isNil, NilErr)

executePing(params, outcome) ==
    LET countParam == IF params.count = 0 THEN 4 ELSE params.count
        cmd == <<"ping", "-c", countParam, params.host>>
        r == executeCommand(cmd, outcome)
    IN IF params.host = ""
       THEN NatReturned(FALSE, NoCommand, "", FALSE, Err("host parameter is required"))
       ELSE IF ~r.err.isNil
       THEN NatReturned(FALSE, NoCommand, "", FALSE, Err("ping failed"))
       ELSE NatReturned(TRUE, cmd, r.output, r.err.isNil, NilErr)

executeTraceroute(params, outcome) ==
    IF params.host = ""
    THEN NatReturned(FALSE, NoCommand, "", FALSE, Err("host parameter is required"))
    ELSE ResultWhateverHappened(<<"traceroute", params.host>>, outcome)

executeDNSLookup(params, outcome) ==
    IF params.host = ""
    THEN NatReturned(FALSE, NoCommand, "", FALSE, Err("domain parameter is required"))
    ELSE ResultWhateverHappened(<<"dig", params.host>>, outcome)

executePortScanner(params, outcome) ==
    IF params.host = ""
    THEN NatReturned(FALSE, NoCommand, "", FALSE, Err("host parameter is required"))
    ELSE ResultWhateverHappened(<<"nmap", "-p", "1-1000", params.host>>, outcome)

\* the switch of the closure LoadPluginFunc returns, for these four identifiers
NativeExecute(id, params, outcome) ==
    CASE id = "ping" -> executePing(params, outcome)
      [] id = "traceroute" -> executeTraceroute(params, outcome)
      [] id = "dns_lookup" -> executeDNSLookup(params, outcome)
      [] id = "port_scanner" -> executePortScanner(params, outcome)

NatInputs ==
    [id : NativeIds, params : [host : Hosts, count : Counts], outcome : CommandOutcomes]

NatInit ==
    /\ natIn \in NatInputs
    /\ natOut = NatNotReturned

\* the executor is called
NatExecute ==
    /\ ~natOut.returned
    /\ natOut' = NativeExecute(natIn.id, natIn.params, natIn.outcome)
    /\ UNCHANGED natIn
    /\ UNCHANGED notNat

NatNext == NatExecute

NatIdle ==
    /\ natIn = [id |-> "ping", params |-> [host |-> "", count |-> 0], outcome |-> "ok"]
    /\ natOut = NatNotReturned

-----------------------------------------------------------------------------
(* The two reader/writer locks: PluginRegistry.mutex guards pluginFuncs and
   PluginManager.mu guards plugins.  Callers run the operations concurrently. *)

Structures == {"registry", "manager"}

RwOps == {"RegisterPluginFunc", "GetPluginFunc", "RegisterPlugin", "GetPlugins", "GetPlugin",
          "RefreshPlugins"}

\* operations that all take the read lock
LockOfReadersOnly(op) ==
    [on |-> IF op \in {"RegisterPluginFunc", "GetPluginFunc"} THEN "registry" ELSE "manager",
     kind |-> "read"]

\* the lock an operation takes before it touches the map, and holds until it returns:
\* Lock() in the three that write, RLock() in the three that look up
LockOf(op) ==
    CASE op = "RegisterPluginFunc" -> [on |-> "registry", kind |-> "write"]
      [] op = "GetPluginFunc" -> [on |-> "registry", kind |-> "read"]
      [] op = "RegisterPlugin" -> [on |-> "manager", kind |-> "write"]
      [] op = "GetPlugins" -> [on |-> "manager", kind |-> "read"]
      [] op = "GetPlugin" -> [on |-> "manager", kind |-> "read"]
      [] op = "RefreshPlugins" -> [on |-> "manager", kind |-> "write"]

\* the callers that wait for the write lock of a structure
WaitingWriters(st) ==
    {c \in Callers : rwPc[c] = "wait" /\ LockOf(rwOp[c]) = [on |-> st, kind |-> "write"]}

\* the callers that are writing the map of a structure: RefreshPlugins keeps writing
\* plugins while it looks executors up in the registry
Writing(st) ==
    {c \in Callers : /\ rwPc[c] \in {"in", "innerWait", "inner", "last"}
                     /\ LockOf(rwOp[c]).on = st
                     /\ rwOp[c] \in {"RegisterPluginFunc", "RegisterPlugin", "RefreshPlugins"}}

\* the callers that are reading the map of a structure
Reading(st) ==
    {c \in Callers : \/ /\ rwPc[c] = "in"
                        /\ LockOf(rwOp[c]).on = st
                        /\ rwOp[c] \in {"GetPluginFunc", "GetPlugins", "GetPlugin"}
                     \/ rwPc[c] = "inner" /\ st = "registry"}

RwInit ==
    /\ rwMu = [st \in Structures |-> Unlocked]
    /\ rwPc = [c \in Callers |-> "idle"]
    /\ rwOp = [c \in Callers |-> "none"]

\* a caller calls an operation, which begins by asking for its lock
RwCall(c, op) ==
    /\ rwPc[c] = "idle"
    /\ rwPc' = [rwPc EXCEPT ![c] = "wait"]
    /\ rwOp' = [rwOp EXCEPT ![c] = op]
    /\ UNCHANGED rwMu
    /\ UNCHANGED notRw

\* Lock() or RLock() returns
RwAcquire(c) ==
    /\ rwPc[c] = "wait"
    /\ LET l == LockOf(rwOp[c]) IN
       IF l.kind = "write"
       THEN /\ CanLock(rwMu[l.on])
            /\ rwMu' = [rwMu EXCEPT ![l.on].writer = TRUE]
       ELSE /\ CanRLock(rwMu[l.on], WaitingWriters(l.on) # {})
            /\ rwMu' = [rwMu EXCEPT ![l.on].readers = @ + 1]
    /\ rwPc' = [rwPc EXCEPT ![c] = "in"]
    /\ UNCHANGED rwOp
    /\ UNCHANGED notRw

\* RefreshPlugins, inside its lock, calls registry.GetPluginFunc for a directory
RwRefreshLooksUp(c) ==
    /\ rwPc[c] = "in"
    /\ rwOp[c] = "RefreshPlugins"
    /\ rwPc' = [rwPc EXCEPT ![c] = "innerWait"]
    /\ UNCHANGED <<rwMu, rwOp>>
    /\ UNCHANGED notRw

\* that GetPluginFunc's RLock() returns
RwInnerAcquire(c) ==
    /\ rwPc[c] = "innerWait"
    /\ CanRLock(rwMu["registry"], WaitingWriters("registry") # {})
    /\ rwMu' = [rwMu EXCEPT !["registry"].readers = @ + 1]
    /\ rwPc' = [rwPc EXCEPT ![c] = "inner"]
    /\ UNCHANGED rwOp
    /\ UNCHANGED notRw

\* that GetPluginFunc returns (deferred RUnlock) and the refresh stores the plugin
RwInnerRelease(c) ==
    /\ rwPc[c] = "inner"
    /\ rwMu' = [rwMu EXCEPT !["registry"].readers = @ - 1]
    /\ rwPc' = [rwPc EXCEPT ![c] = "last"]
    /\ UNCHANGED rwOp
    /\ UNCHANGED notRw

\* the operation returns: the deferred Unlock() or RUnlock() runs
RwReturn(c) ==
    /\ rwPc[c] \in {"in", "last"}
    /\ LET l == LockOf(rwOp[c]) IN
       rwMu' = IF l.kind = "write"
               THEN [rwMu EXCEPT ![l.on].writer = FALSE]
               ELSE [rwMu EXCEPT ![l.on].readers = @ - 1]
    /\ rwPc' = [rwPc EXCEPT ![c] = "idle"]
    /\ rwOp' = [rwOp EXCEPT ![c] = "none"]
    /\ UNCHANGED notRw

RwNext ==
    \E c \in Callers :
        \/ \E op \in RwOps : RwCall(c, op)
        \/ RwAcquire(c)
        \/ RwRefreshLooksUp(c)
        \/ RwInnerAcquire(c)
        \/ RwInnerRelease(c)
        \/ RwReturn(c)

RwIdle ==
    /\ rwMu = [st \in Structures |-> Unlocked]
    /\ rwPc = [c \in Callers |-> "idle"]
    /\ rwOp = [c \in Callers |-> "none"]

-----------------------------------------------------------------------------
(* LoadPlugins and RefreshPlugins over directories whose names the code singles
   out: dns_lookup and subnet_calculator (LoadPlugins, LoadPluginFunc) and
   network_info (RefreshPlugins), beside an ordinary one *)

\* directory names in the order os.ReadDir returns them
LdDirOrder == <<"dns_lookup", "network_info", "ping", "subnet_calculator">>

LdDirNames == {LdDirOrder[i] : i \in 1..Len(LdDirOrder)}

\* a directory: absent, well-formed under its own or another identifier, without
\* plugin.go, or with a malformed manifest
LdDirStates(d) ==
    { NoDir, Dir("ok", Manifest(d, << >>), TRUE, DescribeFails),
      Dir("ok", Manifest(d, << >>), FALSE, DescribeFails),
      Dir("malformed", ZeroDefinition, TRUE, DescribeFails) }
    \cup { Dir("ok", Manifest(o, << >>), TRUE, DescribeFails) : o \in LdDirNames \ {d} }

RECURSIVE LdLoadFrom(_, _, _)
LdLoadFrom(fsys, acc, i) ==
    IF i > Len(LdDirOrder)
    THEN acc
    ELSE LdLoadFrom(fsys, LoadDir(fsys, acc, LdDirOrder[i]), i + 1)

RECURSIVE LdRefreshFrom(_, _, _, _)
LdRefreshFrom(fsys, r, plugins, i) ==
    IF i > Len(LdDirOrder)
    THEN plugins
    ELSE LdRefreshFrom(fsys, r, RefreshDir(fsys, r, plugins, LdDirOrder[i]), i + 1)

\* a refresh that adds to the map it finds
LdRefreshKeepingOld(fsys, r, plugins, read1, read2) ==
    LET reg == LdLoadFrom(fsys, [reg |-> r, ops |-> << >>], 1).reg IN
    IF ~read1
    THEN [ok |-> FALSE, reg |-> r, plugins |-> plugins]
    ELSE IF ~read2
    THEN [ok |-> FALSE, reg |-> reg, plugins |-> plugins]
    ELSE [ok |-> TRUE, reg |-> reg,
          plugins |-> RegisterIfNotExists(LdRefreshFrom(fsys, reg, plugins, 1),
                                          NetworkInfoPlugin)]

\* RefreshPlugins over these directories: LoadPlugins, then under the lock the map
\* is replaced by an empty one, filled from the directories, and network_info is
\* added unless a directory supplied it
LdRefresh(fsys, r, plugins, read1, read2) ==
    LET reg == LdLoadFrom(fsys, [reg |-> r, ops |-> << >>], 1).reg IN
    IF ~read1
    THEN [ok |-> FALSE, reg |-> r, plugins |-> plugins]
    ELSE IF ~read2
    THEN [ok |-> FALSE, reg |-> reg, plugins |-> EmptyMap]
    ELSE [ok |-> TRUE, reg |-> reg,
          plugins |-> RegisterIfNotExists(LdRefreshFrom(fsys, reg, EmptyMap, 1),
                                          NetworkInfoPlugin)]

LdNotLoaded == [loaded |-> FALSE, ok |-> FALSE, op |-> "none"]

\* a plugin registered by hand before the refresh, under an identifier
LdManualPlugin(id) ==
    Plugin(id, "Name", Text("Description"), "1.0.0", "Author", "MIT", "icon", << >>, Manual("m1"))

LdInit ==
    /\ ldFs \in { f \in [LdDirNames -> UNION {LdDirStates(d) : d \in LdDirNames}] :
                    \A d \in LdDirNames : f[d] \in LdDirStates(d) }
    /\ ldReg = EmptyMap
    /\ ldPlugins \in { EmptyMap, RegisterPlugin(EmptyMap, LdManualPlugin("legacy")),
                       RegisterPlugin(EmptyMap, LdManualPlugin("ping")) }
    /\ ldOut = LdNotLoaded

\* PluginLoader.LoadPlugins: an unreadable plugins directory is an error, otherwise
\* every directory is processed in order
LdLoadPlugins(readable) ==
    /\ ~ldOut.loaded
    /\ ldReg' = IF readable
                THEN LdLoadFrom(ldFs, [reg |-> ldReg, ops |-> << >>], 1).reg
                ELSE ldReg
    /\ ldOut' = [loaded |-> TRUE, ok |-> readable, op |-> "LoadPlugins"]
    /\ UNCHANGED <<ldFs, ldPlugins>>
    /\ UNCHANGED notLd

\* PluginManager.RefreshPlugins
LdRefreshPlugins(read1, read2) ==
    /\ ~ldOut.loaded
    /\ LET r == LdRefresh(ldFs, ldReg, ldPlugins, read1, read2) IN
        /\ ldReg' = r.reg
        /\ ldPlugins' = r.plugins
        /\ ldOut' = [loaded |-> TRUE, ok |-> r.ok, op |-> "RefreshPlugins"]
    /\ UNCHANGED ldFs
    /\ UNCHANGED notLd

LdNext ==
    \/ \E readable \in BOOLEAN : LdLoadPlugins(readable)
    \/ \E read1, read2 \in BOOLEAN : LdRefreshPlugins(read1, read2)

LdIdle ==
    /\ ldFs = [d \in LdDirNames |-> NoDir]
    /\ ldReg = EmptyMap
    /\ ldPlugins = EmptyMap
    /\ ldOut = LdNotLoaded

-----------------------------------------------------------------------------
(* Calling an executor held in the registry: the wrapper LoadPlugins registers,
   DynamicPlugin.Execute, executeWithMain and executeWithLibrary *)

ChDirStates(d) == { NoDir, Dir("ok", Manifest(d, << >>), TRUE, DescribeFails) }

ChNotReturned == [returned |-> FALSE, kind |-> "none"]

ChReturned(kind) == [returned |-> TRUE, kind |-> kind]

\* where a function value of the registry starts: the wrapper's closure calls
\* loadPlugin, every other one runs its own routine
ChEntry(fn) == IF fn.kind = "wrapper" THEN "loadPlugin" ELSE "helper"

ChTop == chStack[Len(chStack)]

ChInit ==
    /\ chFs \in { f \in [LdDirNames -> UNION {ChDirStates(d) : d \in LdDirNames}] :
                    \A d \in LdDirNames : f[d] \in ChDirStates(d) }
    /\ chMain \in SUBSET {"dns_lookup", "subnet_calculator"}
    /\ chReg = EmptyMap
    /\ chLoaded = FALSE
    /\ chStack = << >>
    /\ chPc = "idle"
    /\ chOut = ChNotReturned

\* PluginLoader.LoadPlugins
ChLoadPlugins ==
    /\ chPc = "idle" /\ ~chLoaded
    /\ chReg' = LdLoadFrom(chFs, [reg |-> chReg, ops |-> << >>], 1).reg
    /\ chLoaded' = TRUE
    /\ UNCHANGED <<chFs, chMain, chStack, chPc, chOut>>
    /\ UNCHANGED notCh

\* a plugin.go is deleted after LoadPlugins
ChPluginGoRemoved(d) ==
    /\ chPc = "idle" /\ chLoaded /\ ~chOut.returned
    /\ chFs[d].present /\ chFs[d].go
    /\ chFs' = [chFs EXCEPT ![d].go = FALSE]
    /\ UNCHANGED <<chMain, chReg, chLoaded, chStack, chPc, chOut>>
    /\ UNCHANGED notCh

\* a caller invokes the function the registry holds for id
ChInvoke(id) ==
    /\ chPc = "idle" /\ chLoaded /\ ~chOut.returned
    /\ id \in DOMAIN chReg
    /\ chStack' = << chReg[id] >>
    /\ chPc' = ChEntry(chReg[id])
    /\ UNCHANGED <<chFs, chMain, chReg, chLoaded, chOut>>
    /\ UNCHANGED notCh

\* a return: every frame returns what its callee returned
ChReturn(kind) ==
    /\ chStack' = << >>
    /\ chPc' = "idle"
    /\ chOut' = ChReturned(kind)

\* the wrapper's closure: p.loadPlugin(pluginDir, pluginID)
ChWrapperLoadPlugin ==
    /\ chPc = "loadPlugin"
    /\ IF chFs[ChTop.dir].go
       THEN chPc' = "Execute" /\ UNCHANGED <<chStack, chOut>>
       ELSE ChReturn("error")
    /\ UNCHANGED <<chFs, chMain, chReg, chLoaded>>
    /\ UNCHANGED notCh

\* DynamicPlugin.Execute: reads plugin.go and looks for "package main"
ChExecute ==
    /\ chPc = "Execute"
    /\ chPc' = IF ChTop.dir \in chMain THEN "executeWithMain" ELSE "executeWithLibrary"
    /\ UNCHANGED <<chFs, chMain, chReg, chLoaded, chStack, chOut>>
    /\ UNCHANGED notCh

\* DynamicPlugin.executeWithMain: `go run plugin.go --execute=...` ends
ChExecuteWithMain(outcome) ==
    /\ chPc = "executeWithMain"
    /\ ChReturn(IF outcome = "ok" THEN "result" ELSE "error")
    /\ UNCHANGED <<chFs, chMain, chReg, chLoaded>>
    /\ UNCHANGED notCh

\* DynamicPlugin.executeWithLibrary: looks its identifier up in the registry and
\* calls what it finds; a call the goroutine's stack has no room for ends the process
ChExecuteWithLibrary ==
    /\ chPc = "executeWithLibrary"
    /\ LET f == GetPluginFunc(chReg, ChTop.id) IN
       IF ~f.ok
       THEN ChReturn("error")
       ELSE IF Len(chStack) >= MaxDepth
       THEN chPc' = "stackOverflow" /\ UNCHANGED <<chStack, chOut>>
       ELSE /\ chStack' = Append(chStack, f.fn)
            /\ chPc' = ChEntry(f.fn)
            /\ UNCHANGED chOut
    /\ UNCHANGED <<chFs, chMain, chReg, chLoaded>>
    /\ UNCHANGED notCh

\* the helper's closure: its switch runs a routine whose subprocesses end
ChHelper(outcome) ==
    /\ chPc = "helper"
    /\ ChReturn(IF outcome = "ok" THEN "result" ELSE "error")
    /\ UNCHANGED <<chFs, chMain, chReg, chLoaded>>
    /\ UNCHANGED notCh

ChNext ==
    \/ ChLoadPlugins
    \/ \E d \in LdDirNames : ChPluginGoRemoved(d)
    \/ \E id \in LdDirNames : ChInvoke(id)
    \/ ChWrapperLoadPlugin
    \/ ChExecute
    \/ \E outcome \in ExecEnvs : ChExecuteWithMain(outcome)
    \/ ChExecuteWithLibrary
    \/ \E outcome \in ExecEnvs : ChHelper(outcome)

ChIdle ==
    /\ chFs = [d \in LdDirNames |-> NoDir]
    /\ chMain = {}
    /\ chReg = EmptyMap
    /\ chLoaded = FALSE
    /\ chStack = << >>
    /\ chPc = "idle"
    /\ chOut = ChNotReturned

-----------------------------------------------------------------------------
(* The configuration manager: ConfigManager (config_manager.go), one caller *)

GitHubToken(name, token, organization) ==
    [Name |-> name, Token |-> token, Organization |-> organization]

PluginSource(name, organization, pattern, isDefault) ==
    [Name |-> name, Organization |-> organization, IsDefault |-> isDefault, Pattern |-> pattern]

Configuration(tokens, sources) == [Tokens |-> tokens, Sources |-> sources]

\* the configuration NewConfigManager creates
EmptyConfiguration == Configuration(<< >>, << >>)

\* the configuration LoadConfiguration writes when there is no file
DefaultConfiguration ==
    Configuration(<< GitHubToken("default", "", "NetScout-Go") >>,
                  << PluginSource("NetScout-Go", "NetScout-Go", "Plugin_*", TRUE) >>)

TokenNames == {"default", "work"}

SourceNames == {"NetScout-Go", "mirror"}

\* the configuration file: absent, not valid JSON, or a written configuration
NoFile == [kind |-> "missing", conf |-> EmptyConfiguration]

GarbageFile == [kind |-> "garbage", conf |-> EmptyConfiguration]

FileOf(conf) == [kind |-> "json", conf |-> conf]

\* index of the first element named name, 0 when there is none
IndexOfName(seq, name) ==
    IF \E i \in 1..Len(seq) : seq[i].Name = name
    THEN CHOOSE i \in 1..Len(seq) :
             /\ seq[i].Name = name
             /\ \A j \in 1..(i - 1) : seq[j].Name # name
    ELSE 0

\* append(s[:index], s[index+1:]...)
WithoutIndex(seq, index) == SubSeq(seq, 1, index - 1) \o SubSeq(seq, index + 1, Len(seq))

\* the body of AddGitHubToken / AddSource up to the save: update or append
AddNamed(seq, item) ==
    LET i == IndexOfName(seq, item.Name) IN
    IF i > 0 THEN [seq EXCEPT ![i] = item] ELSE Append(seq, item)

\* operations a caller may start
CfgOps ==
    { [name |-> "AddGitHubToken", item |-> GitHubToken(n, "t1", "acme")] : n \in TokenNames }
    \cup { [name |-> "RemoveGitHubToken", item |-> GitHubToken(n, "", "")] : n \in TokenNames }
    \cup { [name |-> "AddSource", item |-> PluginSource(n, "acme", "plugin-*", d)] :
             n \in SourceNames, d \in BOOLEAN }
    \cup { [name |-> "RemoveSource", item |-> PluginSource(n, "", "", FALSE)] : n \in SourceNames }
    \cup { [name |-> o, item |-> GitHubToken("", "", "")] :
             o \in {"GetSources", "GetGitHubTokens", "LoadConfiguration", "SaveConfiguration"} }

CfgNoOp == [name |-> "none", item |-> GitHubToken("", "", "")]

CfgNoResult == [op |-> "none", ok |-> TRUE]

\* the operations that start with cm.mu.Lock()
CfgWriters == {"AddGitHubToken", "RemoveGitHubToken", "AddSource", "RemoveSource", "LoadConfiguration"}

\* the first lock call of an operation
CfgLockKind(name) == IF name \in CfgWriters THEN "Lock" ELSE "RLock"

CfgInit ==
    /\ cfgMu = Unlocked
    /\ cfgConf = EmptyConfiguration
    /\ cfgFile \in {NoFile, GarbageFile, FileOf(DefaultConfiguration),
                    FileOf(Configuration(<< GitHubToken("work", "t0", "acme") >>, << >>))}
    /\ cfgOp = CfgNoOp
    /\ cfgPc = "idle"
    /\ cfgRes = CfgNoResult
    /\ cfgN = 0

\* the caller starts an operation
CfgCall(op) ==
    /\ cfgPc = "idle" /\ cfgN < MaxOps + 1
    /\ cfgOp' = op
    /\ cfgPc' = IF op.name = "SaveConfiguration" THEN "SaveConfiguration" ELSE "lock"
    /\ UNCHANGED <<cfgMu, cfgConf, cfgFile, cfgRes, cfgN>>
    /\ UNCHANGED notCfg

\* cm.mu.Lock() / cm.mu.RLock() at the top of the operation
CfgAcquire ==
    /\ cfgPc = "lock"
    /\ IF CfgLockKind(cfgOp.name) = "Lock"
       THEN CanLock(cfgMu) /\ cfgMu' = [cfgMu EXCEPT !.writer = TRUE]
       ELSE CanRLock(cfgMu, FALSE) /\ cfgMu' = [cfgMu EXCEPT !.readers = @ + 1]
    /\ cfgPc' = "body"
    /\ UNCHANGED <<cfgConf, cfgFile, cfgOp, cfgRes, cfgN>>
    /\ UNCHANGED notCfg

\* the body of the operation, up to its return or its call of SaveConfiguration
CfgBody ==
    /\ cfgPc = "body"
    /\ LET n == cfgOp.name  it == cfgOp.item IN
       CASE n = "AddGitHubToken" ->
              /\ cfgConf' = [cfgConf EXCEPT !.Tokens = AddNamed(@, it)]
              /\ cfgPc' = "SaveConfiguration"
              /\ UNCHANGED <<cfgFile, cfgRes>>
         [] n = "AddSource" ->
              /\ cfgConf' = [cfgConf EXCEPT !.Sources = AddNamed(@, it)]
              /\ cfgPc' = "SaveConfiguration"
              /\ UNCHANGED <<cfgFile, cfgRes>>
         [] n = "RemoveGitHubToken" ->
              LET i == IndexOfName(cfgConf.Tokens, it.Name) IN
              IF i = 0
              THEN /\ cfgRes' = [op |-> n, ok |-> FALSE]
                   /\ cfgPc' = "return"
                   /\ UNCHANGED <<cfgConf, cfgFile>>
              ELSE /\ cfgConf' = [cfgConf EXCEPT !.Tokens = WithoutIndex(@, i)]
                   /\ cfgPc' = "SaveConfiguration"
                   /\ UNCHANGED <<cfgFile, cfgRes>>
         [] n = "RemoveSource" ->
              LET i == IndexOfName(cfgConf.Sources, it.Name) IN
              IF i = 0
              THEN /\ cfgRes' = [op |-> n, ok |-> FALSE]
                   /\ cfgPc' = "return"
                   /\ UNCHANGED <<cfgConf, cfgFile>>
              ELSE /\ cfgConf' = [cfgConf EXCEPT !.Sources = WithoutIndex(@, i)]
                   /\ cfgPc' = "SaveConfiguration"
                   /\ UNCHANGED <<cfgFile, cfgRes>>
         [] n = "LoadConfiguration" ->
              /\ cfgPc' = "return"
              /\ CASE cfgFile.kind = "missing" ->
                        /\ cfgFile' = FileOf(DefaultConfiguration)
                        /\ cfgConf' = DefaultConfiguration
                        /\ cfgRes' = [op |-> n, ok |-> TRUE]
                   [] cfgFile.kind = "garbage" ->
                        /\ cfgRes' = [op |-> n, ok |-> FALSE]
                        /\ UNCHANGED <<cfgConf, cfgFile>>
                   [] OTHER ->
                        /\ cfgConf' = cfgFile.conf
                        /\ cfgRes' = [op |-> n, ok |-> TRUE]
                        /\ UNCHANGED cfgFile
         [] OTHER ->
              /\ cfgRes' = [op |-> n, ok |-> TRUE]
              /\ cfgPc' = "return"
              /\ UNCHANGED <<cfgConf, cfgFile>>
    /\ UNCHANGED <<cfgMu, cfgOp, cfgN>>
    /\ UNCHANGED notCfg

\* SaveConfiguration: cm.mu.RLock()
CfgSaveRLock ==
    /\ cfgPc = "SaveConfiguration"
    /\ CanRLock(cfgMu, FALSE)
    /\ cfgMu' = [cfgMu EXCEPT !.readers = @ + 1]
    /\ cfgPc' = "saving"
    /\ UNCHANGED <<cfgConf, cfgFile, cfgOp, cfgRes, cfgN>>
    /\ UNCHANGED notCfg

\* SaveConfiguration: marshal, write the file, deferred RUnlock
CfgSave(written) ==
    /\ cfgPc = "saving"
    /\ cfgFile' = IF written THEN FileOf(cfgConf) ELSE cfgFile
    /\ cfgMu' = [cfgMu EXCEPT !.readers = @ - 1]
    /\ cfgRes' = [op |-> cfgOp.name, ok |-> written]
    /\ IF cfgOp.name = "SaveConfiguration"
       THEN cfgPc' = "idle" /\ cfgOp' = CfgNoOp /\ cfgN' = cfgN + 1
       ELSE cfgPc' = "return" /\ UNCHANGED <<cfgOp, cfgN>>
    /\ UNCHANGED cfgConf
    /\ UNCHANGED notCfg

\* the deferred Unlock / RUnlock of the operation, and its return
CfgReturn ==
    /\ cfgPc = "return"
    /\ cfgMu' = IF CfgLockKind(cfgOp.name) = "Lock"
                THEN [cfgMu EXCEPT !.writer = FALSE]
                ELSE [cfgMu EXCEPT !.readers = @ - 1]
    /\ cfgPc' = "idle"
    /\ cfgOp' = CfgNoOp
    /\ cfgN' = cfgN + 1
    /\ UNCHANGED <<cfgConf, cfgFile, cfgRes>>
    /\ UNCHANGED notCfg

CfgNext ==
    \/ \E op \in CfgOps : CfgCall(op)
    \/ CfgAcquire
    \/ CfgBody
    \/ CfgSaveRLock
    \/ \E written \in BOOLEAN : CfgSave(written)
    \/ CfgReturn

CfgIdle ==
    /\ cfgMu = Unlocked
    /\ cfgConf = EmptyConfiguration
    /\ cfgFile = NoFile
    /\ cfgOp = CfgNoOp
    /\ cfgPc = "idle"
    /\ cfgRes = CfgNoResult
    /\ cfgN = 0

-----------------------------------------------------------------------------
(* Claims about the legacy adapters (SpecLeg) *)

\* parameter i of the converted definition is parameter i of the legacy plugin
SameParameter(new, old) ==
    /\ new.ID = old.ID
    /\ new.Name = old.Name
    /\ new.Description = old.Description
    /\ new.Type = old.Type
    /\ new.Required = old.Required
    /\ new.Default = old.Default
    /\ new.Options = old.Options
    /\ new.Min = old.Min /\ new.Max = old.Max /\ new.Step = old.Step
    /\ ~new.CanIterate

\* C7: adapter conversion keeps the identifier, name, description and icon and the
\* parameters, in order, each with its id, type, required flag, default, options and
\* min/max/step; it adds only version, author and license, which are constants of
\* the adapter.
C7_LegacyConversionPreserves ==
    converted.by # "none"
    => /\ converted.def.ID = legacyPlugin.ID
       /\ converted.def.Name = legacyPlugin.Name
       /\ converted.def.Description = legacyPlugin.Description
       /\ converted.def.Icon = legacyPlugin.Icon
       /\ Len(converted.def.Parameters) = Len(legacyPlugin.Parameters)
       /\ \A i \in 1..Len(legacyPlugin.Parameters) :
              SameParameter(converted.def.Parameters[i], legacyPlugin.Parameters[i])
       /\ converted.def.Requires = << >>
       /\ converted.def.Repository = ""
       /\ converted.by = "CompatPlugin"
            => /\ converted.def.Version = "0.0.0"
               /\ converted.def.Author = "Unknown"
               /\ converted.def.License = "Unknown"
       /\ converted.by = "LegacyPluginWrapper"
            => /\ converted.def.Version = "1.0.0"
               /\ converted.def.Author = "NetTool"
               /\ converted.def.License = "MIT"

\* C7 happens: a legacy plugin with two different parameters, one with a default,
\* options or bounds, went through CompatPlugin
C7_Witness ==
    /\ converted.by = "CompatPlugin"
    /\ Len(legacyPlugin.Parameters) = 2
    /\ legacyPlugin.Parameters[1] # legacyPlugin.Parameters[2]
    /\ legacyPlugin.Parameters[1].Required
    /\ legacyPlugin.Parameters[2].Default # ""
    /\ Len(converted.def.Parameters) = 2

-----------------------------------------------------------------------------
(* Claims about the definition lookup (SpecDp) *)

\* C6: GetDefinition returns a definition whatever the two earlier steps did: the
\* manifest's when the manifest file is readable and well-formed; otherwise, having
\* asked the describe mode, the described one; and when that fails too (the process
\* fails or prints what does not parse) a synthesized one with the plugin's
\* identifier whose description contains the failure reason.
C6_ManifestThenDescribe ==
    dpLast.called
    => /\ dpLast.dir.json = "ok" => dpLast.def = dpLast.dir.def /\ ~dpLast.described
       /\ dpLast.dir.json # "ok" => dpLast.described
       /\ (dpLast.dir.json # "ok" /\ dpLast.dir.describe.state = "ok")
            => dpLast.def = dpLast.dir.describe.def
       /\ (dpLast.dir.json # "ok" /\ dpLast.dir.describe.state # "ok")
            => /\ dpLast.def.ID = DpPluginID
               /\ dpLast.def.Name = DpPluginID
               /\ \E i \in 1..Len(dpLast.def.Description) :
                      dpLast.def.Description[i] = dpLast.dir.describe.err

\* C6 happens: the manifest is malformed and the describe mode prints garbage, and
\* the call returned the synthesized definition
C6_Witness ==
    /\ dpLast.called
    /\ dpLast.dir.json = "malformed"
    /\ dpLast.dir.describe.state = "badOutput"
    /\ dpLast.def.ID = DpPluginID
    /\ dpLast.def.Icon = "exclamation-triangle"

-----------------------------------------------------------------------------
(* Claims about the iteration loop (SpecCli) *)

\* every step of the run so far reported continuation and no error
AllContinued ==
    \A i \in 1..Len(stepLog) : stepLog[i].continueIteration /\ stepLog[i].err.isNil

\* C4: a run in non-terminal mode with MaxIterations = K > 0 over a plugin that
\* supports iteration and whose steps all report continuation and no error ends
\* after exactly K steps with exactly K results.
C4_ExactlyKSteps ==
    ( /\ cliPc = "done"
      /\ cli.SupportsIteration
      /\ ~cli.RunInTerminal
      /\ cli.MaxIterations > 0
      /\ AllContinued )
    => /\ Len(stepLog) = cli.MaxIterations
       /\ Len(Results) = cli.MaxIterations

\* C5: the first step that reports a non-nil error is the last one dispatched; its
\* result, carrying the error's text, is the final element of Results.
C5_ErrorIsLastStep ==
    \A i \in 1..Len(stepLog) :
        ~stepLog[i].err.isNil
        => /\ i = Len(stepLog)
           /\ Len(Results) = i
           /\ Results[i].IterationCount = stepLog[i].count
           /\ Results[i].Error = stepLog[i].err.text
           /\ cliPc = "done"

\* C5 happens: a run ended by a step that failed while asking to continue, after
\* earlier steps that succeeded
C5_Witness ==
    /\ cliPc = "done"
    /\ Len(stepLog) >= 2
    /\ ~stepLog[Len(stepLog)].err.isNil
    /\ stepLog[Len(stepLog)].continueIteration
    /\ Results[Len(Results)].Error = "timeout"

\* C23: in non-interactive mode (RunInTerminal = FALSE) the operator is never asked
\* whether to continue, however many iterations have completed.
C23_NoPromptWhenHeadless ==
    ~cli.RunInTerminal => (prompts = << >> /\ cliPc # "prompt")

\* C24: with MaxIterations = K > 0 no step is dispatched with an index >= K and at
\* most K results are recorded, whatever the plugin returns and the operator answers.
C24_BoundedByMax ==
    cli.MaxIterations > 0
    => /\ \A i \in 1..Len(stepLog) : stepLog[i].count < cli.MaxIterations
       /\ Len(stepLog) <= cli.MaxIterations
       /\ Len(Results) <= cli.MaxIterations

\* a bounded run whose steps all asked to go on has ended with exactly K results
C24_Witness ==
    /\ cliPc = "done"
    /\ cli.MaxIterations = 3
    /\ Len(Results) = 3
    /\ AllContinued

\* C25: in interactive mode the operator is asked exactly after the 5th, 10th, ...
\* successfully continued iteration and at no other point; after a negative answer or
\* unreadable input no further step is dispatched and no further result is recorded.
C25_PromptEveryFifth ==
    cli.RunInTerminal
    => /\ Len(prompts) = IF cliPc = "prompt"
                         THEN (iterationCount \div 5) - 1
                         ELSE iterationCount \div 5
       /\ cliPc = "prompt" => iterationCount > 0 /\ iterationCount % 5 = 0
       /\ \A j \in 1..Len(prompts) :
              /\ prompts[j].count = 5 * j
              /\ \A i \in 1..prompts[j].count :
                     stepLog[i].continueIteration /\ stepLog[i].err.isNil
              /\ prompts[j].answer \in {"n", "", "readError"}
                 => /\ j = Len(prompts)
                    /\ cliPc = "done"
                    /\ Len(stepLog) = prompts[j].count
                    /\ Len(Results) = prompts[j].count

\* the operator agreed after the 5th iteration and declined after the 10th
C25_Witness ==
    /\ cli.RunInTerminal
    /\ cliPc = "done"
    /\ Len(prompts) = 2
    /\ prompts[1].answer = "yes"
    /\ prompts[2].answer = "readError"
    /\ Len(Results) = 10

\* Results holds one element per dispatched step, the i-th (from 0) with index i
ResultsInCallOrder ==
    /\ Len(Results) = Len(stepLog)
    /\ \A i \in 1..Len(Results) :
           /\ Results[i].IterationCount = i - 1
           /\ Results[i].IterationCount = stepLog[i].count

\* a step of a run appends at most one element and leaves the earlier ones as they are
ResultsOnlyAppended ==
    \/ cliPc' = "loop" /\ cliPc \in {"idle", "done"}
    \/ /\ Len(Results') \in {Len(Results), Len(Results) + 1}
       /\ SubSeq(Results', 1, Len(Results)) = Results

\* C26: during a run the recorded results are a sequence whose i-th element (from 0)
\* has iteration index i and whose length is the number of steps dispatched so far;
\* each step only appends one element, and recorded elements are never changed,
\* reordered or removed until the next run starts.
C26_ResultsAppendOnly == []ResultsInCallOrder /\ [][ResultsOnlyAppended]_vars

\* a run has recorded several results
C26_Witness ==
    /\ cliPc = "sleep"
    /\ Len(Results) = 3
    /\ Results[3].IterationCount = 2

\* C27: a run that dispatched n >= 1 steps has slept n-1 times, however it ended.
C27_SleepsBetweenSteps ==
    (cliPc = "done" /\ Len(stepLog) >= 1) => sleeps = Len(stepLog) - 1

\* the same for runs whose MaxIterations is not negative
SleepsBetweenStepsNonNegativeMax ==
    (cliPc = "done" /\ Len(stepLog) >= 1 /\ cli.MaxIterations >= 0)
    => sleeps = Len(stepLog) - 1

-----------------------------------------------------------------------------
(* Claims about the executors (SpecExe, FairSpecExe) *)

\* the callers whose build command has been handed to the operating system and has
\* not yet returned
BuildsInFlight == {c \in Callers : exeCmd[c] = "build" /\ exePc[c] \in {"exec", "waiting"}}

\* C3: at most one build of the plugin's artifact is in flight at any time, however
\* many callers found the artifact missing.
C3_SingleFlightBuild == Cardinality(BuildsInFlight) <= 1

\* C8: an execution that waits for a subprocess eventually returns to its caller,
\* whether or not the subprocess ever exits.
C8_SubprocessCallReturns ==
    \A c \in Callers : (exePc[c] = "waiting") ~> (exePc[c] = "done")

\* C9: a failure of the build-and-load tier is the caller's final outcome only after
\* the subprocess tier and the registry fallback have been tried too.
C9_FailureFallsThrough ==
    \A c \in Callers :
        (exePc[c] = "done" /\ exeRes[c] \in BuildLoadFailures)
        => {"subprocess", "registry"} \subseteq exeTried[c]

\* C12: a run of the loop in which a step reported an error returns an error.
C12_StepErrorReturned ==
    ( /\ cliPc = "done"
      /\ cli.SupportsIteration
      /\ \E i \in 1..Len(stepLog) : ~stepLog[i].err.isNil )
    => cliRet = "error"

C30_BuildOnlyWhenMissing ==
    \A c \in Callers :
        /\ exeBuilds[c] > 0 => exeFound[c] = "missing"
        /\ exeFound[c] \in {"cached", "present"} => exeBuilds[c] = 0 /\ exeCmd[c] # "build"
        /\ (exeKind[c] = "helper" /\ exeFound[c] = "missing") => exeBuilds[c] = 1

\* C30 happens: an execution found the artifact an earlier one had built and went on
\* to load it without a build
C30_Witness ==
    \E c \in Callers :
        /\ exeFound[c] = "cached"
        /\ exePc[c] = "load"
        /\ artifact = "ok"
        /\ exeBuilds[c] = 0

-----------------------------------------------------------------------------
(* Claims about the manager's lock (SpecLock, FairSpecLock) *)

\* C11: a RunPlugin call for one identifier gets past GetPlugin and goes on, whatever
\* the subprocess of another identifier does, a refresh that waits for that
\* identifier's describe subprocess included.
C11_OtherIdNotBlocked ==
    \A c \in Callers : (rnPc[c] = "rlock") ~> (rnPc[c] # "rlock")

-----------------------------------------------------------------------------
(* Claims about the subprocess tier (SpecSub) *)

\* the texts that are JSON documents
JsonTexts == {"{\"success\":true}", "42", "null"}

\* C18: when the plugin process exits successfully the call returns no error: the
\* decoded value when the output is a JSON document, otherwise an envelope that
\* carries the raw output; when the process fails the call returns an error and no
\* result.
C18_SubprocessResult ==
    (subOut.called /\ subIn.marshalable)
    => /\ subIn.exitOk
            => /\ subOut.err.isNil
               /\ subIn.output \in JsonTexts
                    => /\ subOut.value.kind \in {"object", "number", "nil"}
                       /\ subOut.value = JsonUnmarshal(subIn.output).value
               /\ subIn.output \notin JsonTexts
                    => /\ subOut.value.kind = "envelope"
                       /\ subOut.value.repr = subIn.output
                       /\ subOut.value.params = subIn.params
       /\ ~subIn.exitOk => ~subOut.err.isNil /\ subOut.value = NilValue

\* C18 happens: the process exited successfully after printing a truncated document,
\* and the call returned the envelope
C18_Witness ==
    /\ subOut.called
    /\ subIn.marshalable /\ subIn.exitOk
    /\ subIn.output = "{\"success\":"
    /\ subOut.value.kind = "envelope"
    /\ subOut.err.isNil

-----------------------------------------------------------------------------
(* Claims about the command-line driver (SpecDrv) *)

\* C20: a run of the driver that is asked to iterate, over a plugin whose own type
\* supports iteration, is driven by the iteration loop with the maximum given on the
\* command line.
C20_IterationUsesEngine ==
    ( /\ drvOut.ran
      /\ drvIn.plugin # "" /\ drvIn.loadOk /\ drvIn.paramsOk
      /\ drvIn.iterate
      /\ IsIterablePlugin(drvIn.pluginMethods) )
    => drvOut.mode = "engine" /\ drvOut.maxIterations = drvIn.max

-----------------------------------------------------------------------------
(* Claims about the bandwidth test (SpecBw) *)

\* the sources that answer on this host, by position
Answering == {i \in 1..3 : bwEnv[i] = "ok"}

\* C21: the bandwidth test runs librespeed-cli, speedtest, speedtest-cli in that order
\* and returns the result of the first that succeeds, running none after it; when all
\* three fail it returns a result with source "simulated" whose note lists the three
\* failures in order; it never returns an error.
C21_FirstSourceThatSucceeds ==
    bwOut.returned =>
        /\ bwOut.result.err.isNil
        /\ IF Answering # {}
           THEN LET first == CHOOSE i \in Answering : \A j \in Answering : i <= j IN
                /\ bwOut.ran = SubSeq(<<"librespeed-cli", "speedtest", "speedtest-cli">>, 1, first)
                /\ bwOut.result.source = bwOut.ran[first]
           ELSE /\ bwOut.ran = <<"librespeed-cli", "speedtest", "speedtest-cli">>
                /\ bwOut.result.source = "simulated"
                /\ SubSeq(bwOut.result.note, 3, Len(bwOut.result.note))
                       = <<  <<"librespeed-cli", bwEnv[1]>>, <<"speedtest binary", bwEnv[2]>>,
                             <<"speedtest-cli", bwEnv[3]>>  >>

\* the first source failed and the second answered, with the third able to answer too
C21_Witness ==
    /\ bwOut.returned
    /\ bwEnv[1] # "ok" /\ bwEnv[2] = "ok" /\ bwEnv[3] = "ok"
    /\ bwOut.result.source = "speedtest"

-----------------------------------------------------------------------------
(* Claims about the native executors (SpecNat) *)

\* C22: when the command of a native executor (ping, traceroute, dns_lookup,
\* port_scanner) cannot be run or exits non-zero, the executor returns a non-nil
\* error, not a result with a nil error.
C22_CommandFailureIsError ==
    ( /\ natOut.returned
      /\ natIn.params.host # ""
      /\ natIn.outcome # "ok" )
    => ~natOut.err.isNil

\* the same for executePing alone
PingFailureIsError ==
    (natOut.returned /\ natIn.id = "ping" /\ natIn.params.host # "" /\ natIn.outcome # "ok")
    => ~natOut.err.isNil

-----------------------------------------------------------------------------
(* Claims about the two reader/writer locks (SpecRw) *)

\* C28: on the registry and on the manager, a write (RegisterPluginFunc,
\* RegisterPlugin, the map replacement of RefreshPlugins) never overlaps with a lookup
\* or another write on the same structure; lookups may overlap one another.
C28_WritesExclusive ==
    \A st \in Structures :
        /\ Cardinality(Writing(st)) <= 1
        /\ Writing(st) # {} => Reading(st) = {}

\* two lookups of the manager hold its lock at the same time
C28_Witness ==
    /\ Cardinality(Reading("manager")) >= 2
    /\ Writing("manager") = {}

-----------------------------------------------------------------------------
(* Claims about the executors LoadPlugins registers (SpecLd) *)

\* the identifiers LoadPlugins discovered: the manifest identifiers of the directories
\* with a well-formed manifest and a plugin.go
LdDiscovered ==
    {ldFs[d].def.ID : d \in {x \in LdDirNames : ldFs[x].present /\ ldFs[x].json = "ok" /\ ldFs[x].go}}

\* C29: after LoadPlugins, the registry holds the helper's routine for every
\* discovered identifier except the one flagged to keep its own implementation
\* (dns_lookup), for which it holds the generic dynamic wrapper.
C29_HelperOverridesWrapper ==
    (ldOut.loaded /\ ldOut.ok)
    => \A id \in LdDiscovered :
           /\ id \in DOMAIN ldReg
           /\ ldReg[id].id = id
           /\ ldReg[id].kind = IF id = "dns_lookup" THEN "wrapper" ELSE "helper"

\* the same with subnet_calculator counted among the identifiers that keep the wrapper
HelperOverridesUnlessSingledOut ==
    (ldOut.loaded /\ ldOut.ok)
    => \A id \in LdDiscovered :
           /\ id \in DOMAIN ldReg
           /\ ldReg[id].id = id
           /\ ldReg[id].kind = IF id \in {"dns_lookup", "subnet_calculator"}
                               THEN "wrapper" ELSE "helper"

\* the directories RefreshPlugins makes a plugin of: present, with a plugin.go, and
\* with an executor registered under the directory's name
LdResolved == {d \in LdDirNames : ldFs[d].present /\ ldFs[d].go /\ d \in DOMAIN ldReg}

\* C32: after a RefreshPlugins that succeeds the manager holds exactly the plugins
\* resolved from the directories during the call, each with that directory's
\* definition and executor, plus network_info: earlier entries without a resolvable
\* directory are gone, network_info is present, and the one a directory supplies
\* stands in place of the built-in one.
C32_RefreshReplacesAll ==
    (ldOut.op = "RefreshPlugins" /\ ldOut.ok)
    => /\ DOMAIN ldPlugins = LdResolved \cup {"network_info"}
       /\ \A d \in LdResolved :
              LET def == GetDefinition(NoCache, d, ldFs[d]).def IN
              /\ ldPlugins[d].ID = def.ID
              /\ ldPlugins[d].Name = def.Name
              /\ ldPlugins[d].Parameters = convertParameters(def.Parameters)
              /\ ldPlugins[d].Execute = ldReg[d]
       /\ "network_info" \notin LdResolved => ldPlugins["network_info"] = NetworkInfoPlugin

\* C32 happens: a refresh found a network_info directory and an ordinary one while a
\* plugin registered by hand had no directory
C32_Witness ==
    /\ ldOut.op = "RefreshPlugins" /\ ldOut.ok
    /\ LdResolved = {"network_info", "ping"}
    /\ ldPlugins["network_info"].Execute.kind = "helper"
    /\ ldPlugins["network_info"].Name = "Name"
    /\ "legacy" \notin DOMAIN ldPlugins
    /\ ~ldFs["dns_lookup"].present

-----------------------------------------------------------------------------
(* A further claim about the legacy adapters (SpecLeg) *)

\* C39: the two legacy conversion routes agree: for every legacy plugin the
\* definition CompatPlugin returns and the one the wrapper built by
\* ConvertLegacyPluginToNewPlugin returns are equal, version, author and license
\* included.
C39_RoutesAgree ==
    converted.by # "none"
    => /\ converted.def = CompatPlugin(legacyPlugin)
       /\ converted.def =
              WrapperGetDefinition(ConvertLegacyPluginToNewPlugin(legacyPlugin, Manual("m1")))

\* the routes agree on every field the legacy shape has
RoutesAgreeOnLegacyFields ==
    converted.by # "none"
    => LET a == CompatPlugin(legacyPlugin)
           b == WrapperGetDefinition(ConvertLegacyPluginToNewPlugin(legacyPlugin, Manual("m1")))
       IN  /\ [a EXCEPT !.Version = "", !.Author = "", !.License = ""]
              = [b EXCEPT !.Version = "", !.Author = "", !.License = ""]
           /\ converted.def \in {a, b}

-----------------------------------------------------------------------------
(* A further claim about the iteration loop (SpecCli) *)

\* C38: the operator is asked whether to continue only when a positive answer would
\* lead to a further step: when the configured maximum has been reached the loop
\* ends without a question.
C38_NoQuestionAtMaximum ==
    /\ cliPc = "prompt" => ~MaxReached(cli, iterationCount)
    /\ \A j \in 1..Len(prompts) : ~MaxReached(cli, prompts[j].count)

-----------------------------------------------------------------------------
(* Further claims about the plugin manager (SpecMgr) *)

\* C36: a RefreshPlugins that returns an error leaves the set of registered plugins
\* as it was: what RunPlugin could run before, it can run afterwards.
C36_FailedRefreshKeepsPlugins ==
    [][ (lastOp'.op = "RefreshPlugins" /\ ~lastOp'.ok /\ nOps' = nOps + 1)
        => pmPlugins' = pmPlugins ]_vars

\* C37: every plugin of the manager is stored under the key equal to its own
\* identifier, with the executor registered for that identifier: GetPlugin(k) never
\* returns a plugin whose ID differs from k.
C37_KeyIsPluginID ==
    \A k \in DOMAIN pmPlugins :
        /\ pmPlugins[k].ID = k
        /\ pmPlugins[k].Execute.kind \in {"wrapper", "helper"} => pmPlugins[k].Execute.id = k

-----------------------------------------------------------------------------
(* Claims about calling an executor of the registry (SpecCh) *)

\* C33: for every identifier LoadPlugins registered, calling the registry's executor
\* ends in a result or an error: the chain wrapper -> DynamicPlugin.Execute ->
\* executeWithLibrary -> registry lookup never enters a wrapper that is already
\* running, and the call never exhausts the stack.
C33_ExecutorReturns ==
    /\ \A i, j \in 1..Len(chStack) : i # j => chStack[i] # chStack[j]
    /\ chPc # "stackOverflow"

\* the same for the calls that do not go through executeWithLibrary: the helper's
\* routines and a plugin.go that is a 'package main' program
ExecutorReturnsOutsideLibrary ==
    (chStack # << >> /\ (chStack[1].kind # "wrapper" \/ chStack[1].dir \in chMain))
    => Len(chStack) = 1 /\ chPc # "stackOverflow"

-----------------------------------------------------------------------------
(* Claims about the configuration manager (SpecCfg) *)

\* C34: AddGitHubToken, RemoveGitHubToken, AddSource and RemoveSource return to their
\* caller, also with no other caller: none of them waits for the manager's lock
\* while it holds that lock itself, so the lock is free afterwards.
C34_MutatorsReturn ==
    ~( /\ cfgOp.name \in {"AddGitHubToken", "RemoveGitHubToken", "AddSource", "RemoveSource"}
       /\ cfgPc = "SaveConfiguration"
       /\ cfgMu.writer )

\* the operations that do not save while holding the write lock leave the lock free
LockFreeBetweenCalls == cfgPc = "idle" => cfgMu = Unlocked

-----------------------------------------------------------------------------
(* Claims about what callers find in the map during a refresh (SpecLock) *)

\* C35: a GetPlugin, GetPlugins or RunPlugin call concurrent with RefreshPlugins finds
\* the whole plugin set from before the refresh or the whole set the refresh
\* produced, never an emptied or partly rebuilt map.
C35_ReadersSeeWholeSets ==
    \A c \in Callers : (rnSaw[c].seen /\ rnDuring[c]) => rnSaw[c].whole

\* no caller reads the map while the refresh rebuilds it: a map that is not whole
\* is found only as a failed refresh left it, empty
NoReadDuringRebuild ==
    \A c \in Callers : (rnSaw[c].seen /\ ~rnSaw[c].whole) => rnSaw[c].keys = {}

-----------------------------------------------------------------------------
(* Specifications *)

\* the plugin manager and the execution registry
InitMgr == MgrInit /\ CliIdle /\ LegIdle /\ DpIdle /\ ExeIdle /\ LockIdle /\ SubIdle /\ DrvIdle /\ BwIdle /\ NatIdle /\ RwIdle /\ LdIdle /\ ChIdle /\ CfgIdle

SpecMgr == InitMgr /\ [][MgrNext]_vars

\* the iteration loop
InitCli == CliInit /\ MgrIdle /\ LegIdle /\ DpIdle /\ ExeIdle /\ LockIdle /\ SubIdle /\ DrvIdle /\ BwIdle /\ NatIdle /\ RwIdle /\ LdIdle /\ ChIdle /\ CfgIdle

SpecCli == InitCli /\ [][CliNext]_vars

\* the legacy adapters
InitLeg == LegInit /\ MgrIdle /\ CliIdle /\ DpIdle /\ ExeIdle /\ LockIdle /\ SubIdle /\ DrvIdle /\ BwIdle /\ NatIdle /\ RwIdle /\ LdIdle /\ ChIdle /\ CfgIdle

SpecLeg == InitLeg /\ [][LegNext]_vars

\* one dynamic plugin's definition lookup
InitDp == DpInit /\ MgrIdle /\ CliIdle /\ LegIdle /\ ExeIdle /\ LockIdle /\ SubIdle /\ DrvIdle /\ BwIdle /\ NatIdle /\ RwIdle /\ LdIdle /\ ChIdle /\ CfgIdle

SpecDp == InitDp /\ [][DpNext]_vars

\* the executors, with any scheduling of the callers
InitExe == ExeInit /\ MgrIdle /\ CliIdle /\ LegIdle /\ DpIdle /\ LockIdle /\ SubIdle /\ DrvIdle /\ BwIdle /\ NatIdle /\ RwIdle /\ LdIdle /\ ChIdle /\ CfgIdle

SpecExe == InitExe /\ [][ExeNext]_vars

\* the executors when every caller's goroutine keeps running; nothing is assumed of
\* the subprocesses
FairSpecExe == SpecExe /\ WF_vars(ExeProgram)

\* one call of the subprocess tier
InitSub == SubInit /\ MgrIdle /\ CliIdle /\ LegIdle /\ DpIdle /\ ExeIdle /\ LockIdle /\ DrvIdle /\ BwIdle /\ NatIdle /\ RwIdle /\ LdIdle /\ ChIdle /\ CfgIdle

SpecSub == InitSub /\ [][SubNext]_vars

\* one run of the command-line driver
InitDrv == DrvInit /\ MgrIdle /\ CliIdle /\ LegIdle /\ DpIdle /\ ExeIdle /\ LockIdle /\ SubIdle /\ BwIdle /\ NatIdle /\ RwIdle /\ LdIdle /\ ChIdle /\ CfgIdle

SpecDrv == InitDrv /\ [][DrvNext]_vars

\* one call of the bandwidth test
InitBw == BwInit /\ MgrIdle /\ CliIdle /\ LegIdle /\ DpIdle /\ ExeIdle /\ LockIdle /\ SubIdle /\ DrvIdle /\ NatIdle /\ RwIdle /\ LdIdle /\ ChIdle /\ CfgIdle

SpecBw == InitBw /\ [][BwNext]_vars

\* one call of a native executor that runs an external command
InitNat == NatInit /\ MgrIdle /\ CliIdle /\ LegIdle /\ DpIdle /\ ExeIdle /\ LockIdle /\ SubIdle /\ DrvIdle /\ BwIdle /\ RwIdle /\ LdIdle /\ ChIdle /\ CfgIdle

SpecNat == InitNat /\ [][NatNext]_vars

\* concurrent operations on the registry and the manager
InitRw == RwInit /\ MgrIdle /\ CliIdle /\ LegIdle /\ DpIdle /\ ExeIdle /\ LockIdle /\ SubIdle /\ DrvIdle /\ BwIdle /\ NatIdle /\ LdIdle /\ ChIdle /\ CfgIdle

SpecRw == InitRw /\ [][RwNext]_vars

\* LoadPlugins over the directories whose identifiers are special-cased
InitLd == LdInit /\ MgrIdle /\ CliIdle /\ LegIdle /\ DpIdle /\ ExeIdle /\ LockIdle /\ SubIdle /\ DrvIdle /\ BwIdle /\ NatIdle /\ RwIdle /\ ChIdle /\ CfgIdle

SpecLd == InitLd /\ [][LdNext]_vars

\* calling an executor of the registry
InitCh == ChInit /\ MgrIdle /\ CliIdle /\ LegIdle /\ DpIdle /\ ExeIdle /\ LockIdle /\ SubIdle /\ DrvIdle /\ BwIdle /\ NatIdle /\ RwIdle /\ LdIdle /\ CfgIdle

SpecCh == InitCh /\ [][ChNext]_vars

\* the configuration manager with one caller
InitCfg == CfgInit /\ MgrIdle /\ CliIdle /\ LegIdle /\ DpIdle /\ ExeIdle /\ LockIdle /\ SubIdle /\ DrvIdle /\ BwIdle /\ NatIdle /\ RwIdle /\ LdIdle /\ ChIdle

SpecCfg == InitCfg /\ [][CfgNext]_vars

\* the manager's lock, with any scheduling
InitLock == LockInit /\ MgrIdle /\ CliIdle /\ LegIdle /\ DpIdle /\ ExeIdle /\ SubIdle /\ DrvIdle /\ BwIdle /\ NatIdle /\ RwIdle /\ LdIdle /\ ChIdle /\ CfgIdle

SpecLock == InitLock /\ [][LockNext]_vars

\* the manager's lock when every goroutine keeps running and a goroutine that can
\* take the lock again and again does take it; nothing is assumed of the subprocesses
FairSpecLock ==
    /\ SpecLock
    /\ WF_vars(RfProgram)
    /\ \A c \in Callers : SF_vars(RnProgram(c))

====
